---- MODULE Spec2Model ----
(***************************************************************************)
(* ZED42: Intelligence Ledger (crates/ledger), circuit breaker and router  *)
(* (crates/mom).  Every `.await` on the database or on a provider is one   *)
(* atomic step of the task that executes it; tasks interleave between      *)
(* steps, as the tokio scheduler lets them.                                *)
(*                                                                         *)
(* Money is an integer number of micro-dollars; a rate is an integer       *)
(* number of milli-dollars per 1000 tokens, so that                        *)
(*   (tokens / 1000) * rate  milli-dollars  =  tokens * rate micro-dollars *)
(* exactly, as rust_decimal computes it.                                   *)
(* Time is an integer number of 30 s ticks.                                *)
(***************************************************************************)
EXTENDS Integers, Sequences, FiniteSets, Bags, TLC

\* ------------------------------------------------------------------ bounds
NumClients == 2
NumThreads == 2
MaxLeases == 3
MaxOps == 4
MaxTime == 13
RouterMaxTime == 10
MaxUtc == 11
MaxAuraUtc == 23
MaxPosts == 1025
MailboxCapacity == 4
MaxPushes == 6
MaxMessages == 2
MaxCreatedAt == 2
MaxMemOps == 6
MaxGraphOps == 5

\* ------------------------------------------------------------- task names
Clients == {<<"c", i>> : i \in 1..NumClients}
Threads == {<<"b", i>> : i \in 1..NumThreads}
Requests == {<<"r", 1>>}
Cleaners == {<<"g", l>> : l \in 1..MaxLeases}
\* the AURA sentinel, as a caller of the ledger
Sentinel == <<"s", 1>>
Tasks == Clients \cup Requests \cup Cleaners \cup {Sentinel}

\* ------------------------------------------------------ ledger input sets
Entities == {"e1"}
EntityInputs == {"e1", "nobody"}
Estimates == {1, 2}
RatedModels == {"gpt-4"}
CleanupModel == "lease-guard-cleanup"

VARIABLES
  budgets,      \* table budgets: entity_id -> Budget
  rates,        \* table rate_table: model -> RateTableEntry
  leases,       \* table leases: lease_id -> Lease
  ledger,       \* table ledger_entries: the bag of its rows (ids are generated)
  nextLease,    \* number of lease ids generated so far (Uuid::new_v4)
  call,         \* per task: the ledger call it is executing, with its locals
  ops,          \* number of ledger calls started by the clients
  receipts,     \* history: lease_id -> number of commit_usage calls that returned a Receipt
  frozen_done,  \* history: entities for which a freeze_budget call has returned Ok
  spent0,       \* history: entity_id -> budget.spent when the ledger was set up
  utc,          \* Utc::now(), in ticks
  states,       \* CircuitBreaker.states: model -> CircuitState
  clock,        \* Instant::now(), in ticks
  thr,          \* per breaker thread: where it is in is_open / its provider call
  admitted,     \* history: model -> canary_sent_at of the canaries armed since the last report
  rt,           \* per router request: where complete() is, with its locals and its history
  logs,         \* table routing_logs: the records each complete() call created, in order
  spawned,      \* lease ids whose LeaseGuard cleanup task is spawned and not finished
  pulses,       \* table aura_pulses: agent id -> AuraPulseRow
  aura,         \* the AuraSentinel task: where monitor_pulse_health is, with its locals
  alerts,       \* history: agent id -> number of SystemAlert messages broadcast for it
  senders,      \* MOMWatcher.senders: team key -> number of messages sent on its channel
  rx,           \* per agent: the broadcast::Receiver its Cortex loop holds
  warnings,     \* number of warn! records the MOM watcher has logged
  mailbox,      \* PriorityMailbox.heap: the vector of the BinaryHeap
  pushes,       \* number of messages handed to PriorityMailbox::push
  popped,       \* what the last PriorityMailbox::pop returned
  discarded,    \* history: the last message PriorityMailbox::push refused
  blackboard,   \* table blackboard: the stored VoxMessage rows
  resolved,     \* history: the last two results of resolve_thread, the newest first
  cache,        \* WorkingMemory.cache: key -> CacheEntry
  total_size,   \* WorkingMemory.total_size
  mem,          \* per memory thread: where its insert is, with evict_if_needed's locals
  mem_ops,      \* number of WorkingMemory calls started
  pins,         \* history: keys inserted pinned (ever), those not overwritten since (kept),
                \* keys an eviction or a clear has taken out (dropped)
  nodes,        \* knowledge graph, table nodes: the record ids
  edges,        \* knowledge graph, table edges: the rows
  kg,           \* history: the last knowledge-graph call, what it removed, calls so far
  failed,       \* history: per model, the instants of its latest report_failure calls
  inbox,        \* per subscribed team: the messages its Cortex loop has received, in order
  fanout,       \* history: the last message handed to the MOM watcher, and by which path
  clients,      \* Router.clients: provider prefix -> client
  selected,     \* history: the last get_client call, its model and what it returned
  held,         \* collapse's local `values` while it folds a thread of ConsensusUpdates
  folded,       \* history: the state string of the ConsensusUpdate folded last
  typed_edges,  \* table edges, with the fields structural_search reads
  searched,     \* history: the last structural_search call and the results it returned
  stored,       \* MemorySubstrate: per tier, the entries that match the query text
  answers,      \* history: the last MemorySubstrate::query call since the contents changed,
                \* and the one before it when it was the same query
  scan          \* the AuraSentinel task over several rows: its position, its locals, and
                \* (history) what it invoked for each row of the scan, pulses sent so far

dbVars == <<budgets, rates, leases, ledger, nextLease>>
auraVars == <<pulses, aura, alerts>>
momVars == <<senders, rx, warnings>>
mailboxVars == <<mailbox, pushes, popped, discarded>>
resolverVars == <<blackboard, resolved>>
memoryVars == <<cache, total_size, mem, mem_ops, pins>>
graphVars == <<nodes, edges, kg>>
countVars == <<failed>>
fanVars == <<inbox, fanout>>
scanVars == <<scan>>
clientVars == <<clients, selected>>
foldVars == <<held, folded>>
searchVars == <<typed_edges, searched>>
queryVars == <<stored, answers>>
otherVars == <<fanVars, scanVars, clientVars, foldVars, searchVars, queryVars>>
storeVars == <<memoryVars, graphVars, countVars, otherVars>>
boardVars == <<auraVars, momVars, mailboxVars, resolverVars, storeVars>>
ledgerHist == <<receipts, frozen_done, spent0, utc, boardVars>>
ledgerVars == <<budgets, rates, leases, ledger, nextLease, call, ops, receipts, frozen_done,
                spent0, utc, boardVars>>
breakerVars == <<states, clock, thr, admitted>>
routerVars == <<rt, logs, spawned>>
outsideLedger == <<breakerVars, routerVars>>
outsideBreaker == <<ledgerVars, routerVars>>
vars == <<ledgerVars, breakerVars, routerVars>>

\* ---------------------------------------------------------- circuit breaker
Models == {"m1", "m2", "m3"}
ThreadModels == {"m1"}
NoModel == ""
NoInstant == -1
\* last is history: what the thread's last breaker call was
IdleThread == [pc |-> "idle", model |-> "", now |-> 0, last |-> ""]

\* ------------------------------------------------------------------ router
IdleRequest ==
  [pc |-> "idle", retry_cause |-> "", profile |-> <<NoModel, NoModel, NoModel>>,
   tier |-> 0, now |-> 0, attempt |-> 0, lease_guard |-> 0, settled |-> FALSE,
   last_error |-> "NoModelsConfigured", result |-> "", response_model |-> NoModel,
   \* history: provider calls made in the current tier and what the last one
   \* returned, the tier whose provider returned Ok, the leases request_lease
   \* returned, the gate as the claim states it, the tier whose lease was denied
   calls |-> 0, outcome |-> "", succeeded |-> 0, obtained |-> {}, gate |-> FALSE,
   denied |-> 0]

\* ------------------------------------------------------------ AURA sentinel
Agents == {"a1"}

AuraPulseRow(last_pulse, status) == [last_pulse |-> last_pulse, status |-> status]

\* ghosted is history: the agents whose row dissolve_ghost has set to ghost
IdleSentinel ==
  [pc |-> "sleep", wake |-> 0, rows |-> <<>>, todo |-> {}, agent |-> "", ghosted |-> {}]

\* --------------------------------------------------------------------- MOM
Teams == {"red"}
\* broadcast::channel(1024)
channel_capacity == 1024

\* next is the position of the next message the receiver will read;
\* got and missed are history: messages recv returned, messages a Lagged
\* result skipped
Receiver(team, next) == [state |-> "live", team |-> team, next |-> next, got |-> 0, missed |-> 0]
NoReceiver == [state |-> "none", team |-> "", next |-> 0, got |-> 0, missed |-> 0]
DroppedReceiver == [state |-> "dropped", team |-> "", next |-> 0, got |-> 0, missed |-> 0]

\* ----------------------------------------------------------------- mailbox
\* message.priority values (u8)
Priorities == {1, 2, 255}

\* a VoxMessage in the mailbox: its priority, and which push brought it
PrioritizedMessage(priority, message) == [priority |-> priority, message |-> message]
NoMessage == PrioritizedMessage(0, 0)

\* ---------------------------------------------------------------- resolver
ThreadIds == {"t1", "t2"}
PayloadKinds == {"Proposal", "Observation"}
Contents == {"x", "y"}
\* DateTime::<Utc>::MIN_UTC, before every created_at
MIN_UTC == 0

\* a row of table blackboard: the record id and the VoxMessage fields collapse reads
VoxMessage(id, correlation_id, kind, content, created_at) ==
  [id |-> id, correlation_id |-> correlation_id, kind |-> kind, content |-> content,
   created_at |-> created_at]

ConsensusState(thread_id, values, last_updated) ==
  [thread_id |-> thread_id, values |-> values, last_updated |-> last_updated]

\* ----------------------------------------------------------- working memory
MemThreads == {<<"w", 1>>, <<"w", 2>>}
Keys == {"k1", "k2"}
\* estimated_size of the entries inserted: 200 MiB and 300 MiB
EntrySizes == {209715200, 314572800}
\* 500 * 1024 * 1024
MAX_MEMORY_BYTES == 524288000

CacheEntry(is_pinned, estimated_size, access_count) ==
  [is_pinned |-> is_pinned, estimated_size |-> estimated_size, access_count |-> access_count]

\* size is evict_if_needed's copy of total_size
IdleWorker == [pc |-> "idle", size |-> 0]

\* ---------------------------------------------------------- knowledge graph
NodeIds == {"n1", "n2"}
EdgeIds == {"e1", "e2"}

\* a string value, and a record id of a table
Raw(id) == <<"string", id>>
Thing(tb, id) == <<"thing", tb, id>>

\* the two forms in which a row of edges holds the id of a node
IdForms(id) == {Raw(id), Thing("nodes", id)}

KnowledgeEdge(id, from_id, to_id) == [id |-> id, from_id |-> from_id, to_id |-> to_id]

\* ----------------------------------------------------------------- ledger
Budget(hard, soft, spent, status) ==
  [hard_limit |-> hard, soft_limit |-> soft, spent |-> spent, status |-> status]

Lease(entity_id, estimated_cost, expires_at) ==
  [entity_id |-> entity_id, estimated_cost |-> estimated_cost, expires_at |-> expires_at]

\* chrono::Duration::minutes(5), in ticks
LeaseTtl == 10

LedgerEntry(entity_id, lease_id, transaction_type, amount) ==
  [entity_id |-> entity_id, lease_id |-> lease_id,
   transaction_type |-> transaction_type, amount |-> amount]

Usage(input_tokens, output_tokens, model) ==
  [input_tokens |-> input_tokens, output_tokens |-> output_tokens, model |-> model]

RateTableEntry(input_cost_per_1k, output_cost_per_1k) ==
  [input_cost_per_1k |-> input_cost_per_1k, output_cost_per_1k |-> output_cost_per_1k]

NoBudget == Budget(0, 0, 0, "None")
NoUsage == Usage(0, 0, "")
NoLease == 0

\* Receipt; warning is whether the Option holds a message
Receipt(cost, remaining_budget, warning) ==
  [cost |-> cost, remaining_budget |-> remaining_budget, warning |-> warning]

NoReceipt == Receipt(0, 0, FALSE)

Idle ==
  [op |-> "none", pc |-> "idle", entity_id |-> "", estimated_cost |-> 0,
   lease_id |-> NoLease, usage |-> NoUsage, actual_cost |-> 0,
   budget |-> NoBudget, result |-> "", after_freeze |-> FALSE, expired |-> FALSE,
   receipt |-> NoReceipt]

Put(table, key, row) == [k \in DOMAIN table \cup {key} |-> IF k = key THEN row ELSE table[k]]

Delete(table, key) == [k \in DOMAIN table \ {key} |-> table[k]]

Return(t, result) == call' = [call EXCEPT ![t].pc = "ret", ![t].result = result]

request_lease_fetch_ReserveFirst(t, entity_id, estimated_cost) ==
  /\ call[t].pc = "idle"
  /\ LET started == [Idle EXCEPT !.op = "request_lease", !.entity_id = entity_id,
                                 !.estimated_cost = estimated_cost,
                                 !.after_freeze = (entity_id \in frozen_done)]
         refused(result) == call' = [call EXCEPT ![t] = [started EXCEPT !.pc = "ret",
                                                                        !.result = result]]
     IN IF entity_id \notin DOMAIN budgets
        THEN refused("BudgetExceeded") /\ UNCHANGED dbVars
        ELSE LET budget == budgets[entity_id]
             IN IF budget.status # "Active"
                THEN refused("BudgetFrozen") /\ UNCHANGED dbVars
                ELSE IF budget.spent + estimated_cost > budget.hard_limit
                THEN /\ nextLease < MaxLeases
                     /\ nextLease' = nextLease + 1
                     /\ leases' = Put(leases, nextLease + 1,
                                      Lease(entity_id, estimated_cost, utc + LeaseTtl))
                     /\ refused("BudgetExceeded")
                     /\ UNCHANGED <<budgets, rates, ledger>>
                ELSE /\ call' = [call EXCEPT ![t] = [started EXCEPT !.pc = "create_lease",
                                                                    !.budget = budget]]
                     /\ UNCHANGED dbVars

\* request_lease: fetch the budget, check status and hard cap
request_lease_fetch(t, entity_id, estimated_cost) ==
  /\ call[t].pc = "idle"
  /\ LET started == [Idle EXCEPT !.op = "request_lease", !.entity_id = entity_id,
                                 !.estimated_cost = estimated_cost,
                                 !.after_freeze = (entity_id \in frozen_done)]
     IN IF entity_id \notin DOMAIN budgets
        THEN call' = [call EXCEPT ![t] = [started EXCEPT !.pc = "ret", !.result = "BudgetExceeded"]]
        ELSE LET budget == budgets[entity_id]
             IN IF budget.status # "Active"
                THEN call' = [call EXCEPT ![t] = [started EXCEPT !.pc = "ret", !.result = "BudgetFrozen"]]
                ELSE IF budget.spent + estimated_cost > budget.hard_limit
                THEN call' = [call EXCEPT ![t] = [started EXCEPT !.pc = "ret", !.result = "BudgetExceeded"]]
                ELSE call' = [call EXCEPT ![t] = [started EXCEPT !.pc = "create_lease", !.budget = budget]]
  /\ UNCHANGED dbVars

\* request_lease: create the lease row under a fresh id
request_lease_create(t) ==
  /\ call[t].op = "request_lease" /\ call[t].pc = "create_lease"
  /\ nextLease < MaxLeases
  /\ nextLease' = nextLease + 1
  /\ leases' = Put(leases, nextLease + 1,
                   Lease(call[t].entity_id, call[t].estimated_cost, utc + LeaseTtl))
  /\ call' = [call EXCEPT ![t].pc = "grant", ![t].lease_id = nextLease + 1]
  /\ UNCHANGED <<budgets, rates, ledger>>

\* request_lease: record the Grant entry and return the lease id
request_lease_grant(t) ==
  /\ call[t].op = "request_lease" /\ call[t].pc = "grant"
  /\ ledger' = ledger (+) SetToBag({LedgerEntry(call[t].entity_id, call[t].lease_id, "Grant",
                                          call[t].estimated_cost)})
  /\ Return(t, "Ok")
  /\ UNCHANGED <<budgets, rates, leases, nextLease>>

\* actual_cost = (input_tokens/1000)*input_cost_per_1k + (output_tokens/1000)*output_cost_per_1k
ActualCost(usage, rate) ==
  usage.input_tokens * rate.input_cost_per_1k + usage.output_tokens * rate.output_cost_per_1k

\* commit_usage: retrieve the lease
commit_usage_lease(t, lease_id, usage) ==
  /\ call[t].pc = "idle"
  /\ LET started == [Idle EXCEPT !.op = "commit_usage", !.lease_id = lease_id, !.usage = usage]
     IN IF lease_id \notin DOMAIN leases
        THEN call' = [call EXCEPT ![t] = [started EXCEPT !.pc = "ret", !.result = "LeaseNotFound"]]
        ELSE call' = [call EXCEPT ![t] = [started EXCEPT !.pc = "rate",
                                                         !.entity_id = leases[lease_id].entity_id,
                                                         !.expired = utc > leases[lease_id].expires_at]]
  /\ UNCHANGED dbVars

\* commit_usage: get the rate and compute the actual cost
commit_usage_rate(t) ==
  /\ call[t].op = "commit_usage" /\ call[t].pc = "rate"
  /\ IF call[t].usage.model \notin DOMAIN rates
     THEN Return(t, "RateNotFound")
     ELSE call' = [call EXCEPT ![t].pc = "fetch",
                               ![t].actual_cost = ActualCost(call[t].usage, rates[call[t].usage.model])]
  /\ UNCHANGED dbVars

\* commit_usage: fetch the budget row and add the cost to the local copy
commit_usage_fetch(t) ==
  /\ call[t].op = "commit_usage" /\ call[t].pc = "fetch"
  /\ IF call[t].entity_id \notin DOMAIN budgets
     THEN Return(t, "BudgetExceeded")
     ELSE call' = [call EXCEPT ![t].pc = "update",
                               ![t].budget = [budgets[call[t].entity_id] EXCEPT
                                                !.spent = @ + call[t].actual_cost]]
  /\ UNCHANGED dbVars

\* commit_usage: write the whole local budget row back
commit_usage_update(t) ==
  /\ call[t].op = "commit_usage" /\ call[t].pc = "update"
  /\ budgets' = Put(budgets, call[t].entity_id, call[t].budget)
  /\ call' = [call EXCEPT ![t].pc = "settle"]
  /\ UNCHANGED <<rates, leases, ledger, nextLease>>

\* commit_usage: record the Settlement entry
commit_usage_settle(t) ==
  /\ call[t].op = "commit_usage" /\ call[t].pc = "settle"
  /\ ledger' = ledger (+) SetToBag({LedgerEntry(call[t].entity_id, call[t].lease_id, "Settlement",
                                          call[t].actual_cost)})
  /\ call' = [call EXCEPT ![t].pc = "close"]
  /\ UNCHANGED <<budgets, rates, leases, nextLease>>

commit_usage_close_WarnAtLimit(t) ==
  /\ call[t].op = "commit_usage" /\ call[t].pc = "close"
  /\ leases' = Delete(leases, call[t].lease_id)
  /\ LET budget == call[t].budget
     IN call' = [call EXCEPT ![t].pc = "ret", ![t].result = "Receipt",
                             ![t].receipt = Receipt(call[t].actual_cost,
                                                    budget.hard_limit - budget.spent,
                                                    budget.spent >= budget.soft_limit)]
  /\ UNCHANGED <<budgets, rates, ledger, nextLease>>

\* commit_usage: delete the lease, check the soft cap on the local budget row
\* and return the Receipt
commit_usage_close(t) ==
  /\ call[t].op = "commit_usage" /\ call[t].pc = "close"
  /\ leases' = Delete(leases, call[t].lease_id)
  /\ LET budget == call[t].budget
     IN call' = [call EXCEPT ![t].pc = "ret", ![t].result = "Receipt",
                             ![t].receipt = Receipt(call[t].actual_cost,
                                                    budget.hard_limit - budget.spent,
                                                    budget.spent > budget.soft_limit)]
  /\ UNCHANGED <<budgets, rates, ledger, nextLease>>

\* freeze_budget: fetch the budget row and set the local copy Frozen
freeze_budget_fetch(t, entity_id) ==
  /\ call[t].pc = "idle"
  /\ LET started == [Idle EXCEPT !.op = "freeze_budget", !.entity_id = entity_id]
     IN IF entity_id \notin DOMAIN budgets
        THEN call' = [call EXCEPT ![t] = [started EXCEPT !.pc = "ret", !.result = "BudgetExceeded"]]
        ELSE call' = [call EXCEPT ![t] = [started EXCEPT !.pc = "update",
                                   !.budget = [budgets[entity_id] EXCEPT !.status = "Frozen"]]]
  /\ UNCHANGED dbVars

\* freeze_budget: write the whole local budget row back
freeze_budget_update(t) ==
  /\ call[t].op = "freeze_budget" /\ call[t].pc = "update"
  /\ budgets' = Put(budgets, call[t].entity_id, call[t].budget)
  /\ call' = [call EXCEPT ![t].pc = "audit"]
  /\ UNCHANGED <<rates, leases, ledger, nextLease>>

\* freeze_budget: record the SystemAudit entry and return
freeze_budget_audit(t) ==
  /\ call[t].op = "freeze_budget" /\ call[t].pc = "audit"
  /\ ledger' = ledger (+) SetToBag({LedgerEntry(call[t].entity_id, NoLease, "SystemAudit", 0)})
  /\ Return(t, "Ok")
  /\ UNCHANGED <<budgets, rates, leases, nextLease>>

\* history kept beside a ledger step: Receipts returned per lease, freezes completed
LedgerHistory(t) ==
  /\ UNCHANGED <<spent0, utc, boardVars>>
  /\ receipts' = IF call'[t].pc = "ret" /\ call'[t].result = "Receipt" /\ call[t].pc # "ret"
                 THEN [receipts EXCEPT ![call[t].lease_id] = @ + 1]
                 ELSE receipts
  /\ frozen_done' = IF call'[t].pc = "ret" /\ call'[t].op = "freeze_budget"
                       /\ call'[t].result = "Ok"
                    THEN frozen_done \cup {call'[t].entity_id}
                    ELSE frozen_done

\* ---------------------------------------------------- ledger API clients
UsageInputs ==
  {Usage(1, 0, "gpt-4"), Usage(0, 1, "gpt-4"), Usage(1, 1, "gpt-4"), Usage(0, 0, "unrated")}

\* Leases a client can name: the ids request_lease has returned (its last step
\* records the Grant entry).
KnownLeases ==
  {l \in 1..nextLease :
     \E entry \in BagToSet(ledger) : entry.lease_id = l /\ entry.transaction_type = "Grant"}

ClientRequestLease(c) ==
  /\ ops < MaxOps
  /\ \E e \in EntityInputs, est \in Estimates : request_lease_fetch(c, e, est)
  /\ ops' = ops + 1
  /\ LedgerHistory(c)
  /\ UNCHANGED outsideLedger

ClientCommitUsage(c) ==
  /\ ops < MaxOps
  /\ \E l \in KnownLeases, usage \in UsageInputs : commit_usage_lease(c, l, usage)
  /\ ops' = ops + 1
  /\ LedgerHistory(c)
  /\ UNCHANGED outsideLedger

ClientFreezeBudget(c) ==
  /\ ops < MaxOps
  /\ \E e \in EntityInputs : freeze_budget_fetch(c, e)
  /\ ops' = ops + 1
  /\ LedgerHistory(c)
  /\ UNCHANGED outsideLedger

\* the steps of a ledger call after its first, for the task that executes the call
RequestLeaseCreate(t) ==
  request_lease_create(t) /\ LedgerHistory(t) /\ UNCHANGED <<ops, outsideLedger>>

RequestLeaseGrant(t) ==
  request_lease_grant(t) /\ LedgerHistory(t) /\ UNCHANGED <<ops, outsideLedger>>

CommitUsageRate(t) ==
  commit_usage_rate(t) /\ LedgerHistory(t) /\ UNCHANGED <<ops, outsideLedger>>

CommitUsageFetch(t) ==
  commit_usage_fetch(t) /\ LedgerHistory(t) /\ UNCHANGED <<ops, outsideLedger>>

CommitUsageUpdate(t) ==
  commit_usage_update(t) /\ LedgerHistory(t) /\ UNCHANGED <<ops, outsideLedger>>

CommitUsageSettle(t) ==
  commit_usage_settle(t) /\ LedgerHistory(t) /\ UNCHANGED <<ops, outsideLedger>>

CommitUsageClose(t) ==
  commit_usage_close(t) /\ LedgerHistory(t) /\ UNCHANGED <<ops, outsideLedger>>

FreezeBudgetUpdate(t) ==
  freeze_budget_update(t) /\ LedgerHistory(t) /\ UNCHANGED <<ops, outsideLedger>>

FreezeBudgetAudit(t) ==
  freeze_budget_audit(t) /\ LedgerHistory(t) /\ UNCHANGED <<ops, outsideLedger>>

\* the client takes the result of its call
ClientReturn(c) ==
  /\ call[c].pc = "ret"
  /\ call' = [call EXCEPT ![c] = Idle]
  /\ UNCHANGED <<dbVars, ops, ledgerHist, outsideLedger>>

\* the ledger after construction, with no budget and no rate set
EmptyLedger ==
  /\ leases = <<>>
  /\ ledger = EmptyBag
  /\ nextLease = 0
  /\ call = [t \in Tasks |-> Idle]
  /\ ops = 0
  /\ receipts = [l \in 1..MaxLeases |-> 0]
  /\ frozen_done = {}
  /\ utc = 0

\* the breaker after CircuitBreaker::new()
EmptyBreaker ==
  /\ states = <<>>
  /\ clock = 0
  /\ thr = [t \in Threads |-> IdleThread]
  /\ admitted = [m \in Models |-> <<>>]

\* the blackboard with no pulse sent and the sentinel not yet started
EmptyAura ==
  /\ pulses = <<>>
  /\ aura = IdleSentinel
  /\ alerts = [a \in Agents |-> 0]

\* MOMWatcher::new(): no channel, no subscriber
EmptyMom ==
  /\ senders = <<>>
  /\ rx = [a \in Agents |-> NoReceiver]
  /\ warnings = 0

\* PriorityMailbox::new(capacity)
EmptyMailbox ==
  /\ mailbox = <<>>
  /\ pushes = 0
  /\ popped = NoMessage
  /\ discarded = NoMessage

\* the blackboard table with no message posted and no thread resolved
EmptyResolver ==
  /\ blackboard = {}
  /\ resolved = <<>>

\* WorkingMemory::new()
EmptyMemory ==
  /\ cache = <<>>
  /\ total_size = 0
  /\ mem = [t \in MemThreads |-> IdleWorker]
  /\ mem_ops = 0
  /\ pins = [ever |-> {}, kept |-> {}, dropped |-> {}]

\* KnowledgeGraphMemory::new(): tables nodes and edges defined, empty
EmptyGraph ==
  /\ nodes = {}
  /\ edges = {}
  /\ kg = [op |-> "", id |-> "", removed |-> {}, count |-> 0]

\* no failure reported yet
EmptyCount == failed = [m \in Models |-> <<>>]

\* no team subscribed, no message handed to the watcher
NoFanout == [id |-> 0, target_team |-> "", via |-> ""]
EmptyFan ==
  /\ inbox = <<>>
  /\ fanout = NoFanout

\* the sentinel before its first scan
IdleScan ==
  [pc |-> "sleep", wake |-> 0, rows |-> <<>>, next |-> 1, invoked |-> <<>>,
   failed |-> FALSE, scans |-> 0, pulsed |-> 0]
EmptyScan == scan = IdleScan

\* Router::new: no client registered; strings are sequences of characters
NoSelection == [model |-> <<>>, prefix |-> <<>>, client |-> ""]
EmptyClients ==
  /\ clients = <<>>
  /\ selected = NoSelection

\* collapse before its first message: HashMap::new()
EmptyFold ==
  /\ held = <<>>
  /\ folded = ""

\* no edge stored, no search made
NoSearch == [start_node_id |-> "", edge_types |-> {}, max_depth |-> 0, results |-> {}]
EmptySearch ==
  /\ typed_edges = {}
  /\ searched = NoSearch

\* MemorySubstrate with its four tiers empty
MemoryTiers == <<"Working", "Session", "Project", "Archive">>
EmptySubstrate ==
  /\ stored = [tier \in {MemoryTiers[i] : i \in 1..4} |-> {}]
  /\ answers = <<>>

EmptyBoard ==
  /\ EmptyCount
  /\ EmptySubstrate
  /\ EmptySearch
  /\ EmptyFold
  /\ EmptyClients
  /\ EmptyScan
  /\ EmptyFan
  /\ EmptyAura
  /\ EmptyMom
  /\ EmptyMailbox
  /\ EmptyResolver
  /\ EmptyMemory
  /\ EmptyGraph

\* the router with no complete() call started
EmptyRouter ==
  /\ rt = [r \in Requests |-> IdleRequest]
  /\ logs = [r \in Requests |-> <<>>]
  /\ spawned = {}

InitLedger ==
  /\ EmptyLedger
  /\ \E spent \in {0, 1} : budgets = [e \in Entities |-> Budget(3, 2, spent, "Active")]
  /\ spent0 = [e \in DOMAIN budgets |-> budgets[e].spent]
  /\ rates = [m \in RatedModels |-> RateTableEntry(1, 2)]
  /\ EmptyBreaker
  /\ EmptyRouter
  /\ EmptyBoard

NextLedger ==
  \E c \in Clients :
    \/ ClientRequestLease(c)
    \/ ClientCommitUsage(c)
    \/ ClientFreezeBudget(c)
    \/ RequestLeaseCreate(c)
    \/ RequestLeaseGrant(c)
    \/ CommitUsageRate(c)
    \/ CommitUsageFetch(c)
    \/ CommitUsageUpdate(c)
    \/ CommitUsageSettle(c)
    \/ CommitUsageClose(c)
    \/ FreezeBudgetUpdate(c)
    \/ FreezeBudgetAudit(c)
    \/ ClientReturn(c)

SpecLedger == InitLedger /\ [][NextLedger]_vars

\* ------------------------------------------------- the ledger as time passes
\* One caller of the ledger while leases age.
ExpiryClient == <<"c", 1>>

\* Utc::now() advances
UtcTick ==
  /\ utc < MaxUtc
  /\ utc' = utc + 1
  /\ UNCHANGED <<dbVars, call, ops, receipts, frozen_done, spent0, boardVars, outsideLedger>>

InitExpiry ==
  /\ EmptyLedger
  /\ budgets = [e \in Entities |-> Budget(3, 2, 0, "Active")]
  /\ spent0 = [e \in DOMAIN budgets |-> budgets[e].spent]
  /\ rates = [m \in RatedModels |-> RateTableEntry(1, 2)]
  /\ EmptyBreaker
  /\ EmptyRouter
  /\ EmptyBoard

NextExpiry ==
  \/ ClientRequestLease(ExpiryClient)
  \/ ClientCommitUsage(ExpiryClient)
  \/ RequestLeaseCreate(ExpiryClient)
  \/ RequestLeaseGrant(ExpiryClient)
  \/ CommitUsageRate(ExpiryClient)
  \/ CommitUsageFetch(ExpiryClient)
  \/ CommitUsageUpdate(ExpiryClient)
  \/ CommitUsageSettle(ExpiryClient)
  \/ CommitUsageClose(ExpiryClient)
  \/ ClientReturn(ExpiryClient)
  \/ UtcTick

SpecExpiry == InitExpiry /\ [][NextExpiry]_vars

\* ------------------------------------------------------------ AURA sentinel
\* AuraSentinel::new(): intervals, in ticks of 30 s
check_interval == 1
laggard_threshold == 2
ghost_threshold == 10

\* send_pulse: UPSERT the agent's row with last_pulse = time::now()
send_pulse(agent_id, status) ==
  pulses' = Put(pulses, agent_id, AuraPulseRow(utc, status))

\* Cortex::run, pulse_tick branch
SendPulse(a) ==
  /\ send_pulse(a, "working")
  /\ UNCHANGED <<aura, alerts, momVars, mailboxVars, resolverVars, storeVars>>
  /\ UNCHANGED <<dbVars, call, ops, receipts, frozen_done, spent0, utc, outsideLedger>>

\* monitor_pulse_health: SELECT the rows of aura_pulses
AuraQuery ==
  /\ aura.pc = "sleep" /\ utc >= aura.wake
  /\ aura' = [aura EXCEPT !.pc = "scan", !.rows = pulses, !.todo = DOMAIN pulses]
  /\ UNCHANGED <<pulses, alerts, momVars, mailboxVars, resolverVars, storeVars>>
  /\ UNCHANGED <<dbVars, call, ops, receipts, frozen_done, spent0, utc, outsideLedger>>

\* monitor_pulse_health: the loop body for one row, up to its first query;
\* for a ghost that is dissolve_ghost's UPDATE, for a laggard mark_laggard.
AuraRow(a) ==
  /\ aura.pc = "scan" /\ a \in aura.todo
  /\ LET row == aura.rows[a]
         age == utc - row.last_pulse
         next == [aura EXCEPT !.todo = @ \ {a}]
     IN IF age > ghost_threshold
        THEN IF row.status # "ghost"
             THEN /\ pulses' = [pulses EXCEPT ![a].status = "ghost"]
                  /\ aura' = [next EXCEPT !.pc = "freeze", !.agent = a,
                                           !.ghosted = @ \cup {a}]
             ELSE /\ aura' = next
                  /\ UNCHANGED pulses
        ELSE IF age > laggard_threshold /\ row.status # "laggard"
             THEN /\ pulses' = [pulses EXCEPT ![a].status = "laggard"]
                  /\ aura' = next
             ELSE /\ aura' = next
                  /\ UNCHANGED pulses
  /\ UNCHANGED <<alerts, momVars, mailboxVars, resolverVars, storeVars>>
  /\ UNCHANGED <<dbVars, call, ops, receipts, frozen_done, spent0, utc, outsideLedger>>

\* dissolve_ghost: call freeze_budget for the agent
AuraFreeze ==
  /\ aura.pc = "freeze"
  /\ freeze_budget_fetch(Sentinel, aura.agent)
  /\ aura' = [aura EXCEPT !.pc = "broadcast"]
  /\ UNCHANGED <<pulses, alerts, momVars, mailboxVars, resolverVars, storeVars>>
  /\ UNCHANGED <<ops, receipts, frozen_done, spent0, utc, outsideLedger>>

\* dissolve_ghost: freeze_budget has returned (an error is only logged);
\* broadcast_system_message the SystemAlert
AuraBroadcast ==
  /\ aura.pc = "broadcast" /\ call[Sentinel].pc = "ret"
  /\ call' = [call EXCEPT ![Sentinel] = Idle]
  /\ alerts' = [alerts EXCEPT ![aura.agent] = @ + 1]
  /\ aura' = [aura EXCEPT !.pc = "scan", !.agent = ""]
  /\ UNCHANGED <<pulses, momVars, mailboxVars, resolverVars, storeVars>>
  /\ UNCHANGED <<dbVars, ops, receipts, frozen_done, spent0, utc, outsideLedger>>

\* run: monitor_pulse_health has returned, sleep(check_interval)
AuraSleep ==
  /\ aura.pc = "scan" /\ aura.todo = {}
  /\ aura' = [aura EXCEPT !.pc = "sleep", !.wake = utc + check_interval, !.rows = <<>>]
  /\ UNCHANGED <<pulses, alerts, momVars, mailboxVars, resolverVars, storeVars>>
  /\ UNCHANGED <<dbVars, call, ops, receipts, frozen_done, spent0, utc, outsideLedger>>

\* time passes
AuraTick ==
  /\ utc < MaxAuraUtc
  /\ utc' = utc + 1
  /\ UNCHANGED <<dbVars, call, ops, receipts, frozen_done, spent0, boardVars, outsideLedger>>

InitAura ==
  /\ EmptyLedger
  /\ \E budgeted \in SUBSET Agents : budgets = [e \in budgeted |-> Budget(3, 2, 0, "Active")]
  /\ spent0 = [e \in DOMAIN budgets |-> budgets[e].spent]
  /\ rates = [m \in RatedModels |-> RateTableEntry(1, 2)]
  /\ EmptyBreaker
  /\ EmptyRouter
  /\ EmptyBoard

NextAura ==
  \/ \E a \in Agents : SendPulse(a)
  \/ AuraQuery
  \/ \E a \in Agents : AuraRow(a)
  \/ AuraFreeze
  \/ FreezeBudgetUpdate(Sentinel)
  \/ FreezeBudgetAudit(Sentinel)
  \/ AuraBroadcast
  \/ AuraSleep
  \/ AuraTick

SpecAura == InitAura /\ [][NextAura]_vars

\* --------------------------------------------------------------------- MOM
\* receivers of a team's channel that have not been dropped
receiver_count(team) == Cardinality({a \in Agents : rx[a].state = "live" /\ rx[a].team = team})

\* Cortex::run: blackboard.subscribe(self.team); subscribe_raw creates the
\* team's channel when there is none
Subscribe(a, team) ==
  /\ rx[a].state = "none"
  /\ senders' = IF team \in DOMAIN senders THEN senders ELSE Put(senders, team, 0)
  /\ rx' = [rx EXCEPT ![a] = Receiver(team, senders'[team])]
  /\ UNCHANGED <<warnings, auraVars, mailboxVars, resolverVars, storeVars>>
  /\ UNCHANGED <<dbVars, call, ops, receipts, frozen_done, spent0, utc, outsideLedger>>

\* MOMWatcher::run: a Create/Update notification of a message for the team;
\* tx.send fails only when the channel has no receiver
Forward(team) ==
  /\ IF team \in DOMAIN senders
     THEN IF receiver_count(team) = 0
          THEN /\ warnings < MaxPosts
               /\ warnings' = warnings + 1
               /\ UNCHANGED senders
          ELSE /\ senders[team] < MaxPosts
               /\ senders' = [senders EXCEPT ![team] = @ + 1]
               /\ UNCHANGED warnings
     ELSE UNCHANGED <<senders, warnings>>
  /\ UNCHANGED <<rx, auraVars, mailboxVars, resolverVars, storeVars>>
  /\ UNCHANGED <<dbVars, call, ops, receipts, frozen_done, spent0, utc, outsideLedger>>

\* Cortex::run: mom_rx.recv() completes.  A receiver more than the capacity
\* behind gets Err(Lagged(n)) and is moved to the oldest message kept; the
\* branch pattern Ok(msg) does not match and nothing is logged.
Recv(a) ==
  /\ rx[a].state = "live"
  /\ LET tail == senders[rx[a].team]
         oldest == tail - channel_capacity
     IN /\ rx[a].next < tail
        /\ IF rx[a].next < oldest
           THEN rx' = [rx EXCEPT ![a].missed = @ + (oldest - rx[a].next), ![a].next = oldest]
           ELSE rx' = [rx EXCEPT ![a].got = @ + 1, ![a].next = @ + 1]
  /\ UNCHANGED <<senders, warnings, auraVars, mailboxVars, resolverVars, storeVars>>
  /\ UNCHANGED <<dbVars, call, ops, receipts, frozen_done, spent0, utc, outsideLedger>>

\* Cortex::run returns with an error: its receiver is dropped
AgentExit(a) ==
  /\ rx[a].state = "live"
  /\ rx' = [rx EXCEPT ![a] = DroppedReceiver]
  /\ UNCHANGED <<senders, warnings, auraVars, mailboxVars, resolverVars, storeVars>>
  /\ UNCHANGED <<dbVars, call, ops, receipts, frozen_done, spent0, utc, outsideLedger>>

InitMom ==
  /\ EmptyLedger
  /\ budgets = <<>>
  /\ spent0 = <<>>
  /\ rates = <<>>
  /\ EmptyBreaker
  /\ EmptyRouter
  /\ EmptyBoard

NextMom ==
  \/ \E a \in Agents, team \in Teams : Subscribe(a, team)
  \/ \E team \in Teams : Forward(team)
  \/ \E a \in Agents : Recv(a)
  \/ \E a \in Agents : AgentExit(a)

SpecMom == InitMom /\ [][NextMom]_vars

\* ----------------------------------------------------------------- mailbox
\* impl Ord for PrioritizedMessage: the priority alone is compared
cmp_le(a, b) == a.priority <= b.priority

\* BinaryHeap::sift_up(0, pos) with the element held out of the vector;
\* positions count from 0 as in the vector
RECURSIVE sift_up(_, _, _)
sift_up(data, pos, element) ==
  LET parent == (pos - 1) \div 2
  IN IF pos > 0 /\ ~ cmp_le(element, data[parent + 1])
     THEN sift_up([data EXCEPT ![pos + 1] = data[parent + 1]], parent, element)
     ELSE [data EXCEPT ![pos + 1] = element]

\* BinaryHeap::sift_down_to_bottom(0): move the hole down to a leaf along the
\* greater children (the right one when they compare equal), then sift_up
RECURSIVE sift_down_to_bottom(_, _, _)
sift_down_to_bottom(data, pos, element) ==
  LET end == Len(data)
      child == 2 * pos + 1
  IN IF end >= 2 /\ child <= end - 2
     THEN LET greater == IF cmp_le(data[child + 1], data[child + 2]) THEN child + 1 ELSE child
          IN sift_down_to_bottom([data EXCEPT ![pos + 1] = data[greater + 1]], greater, element)
     ELSE IF child = end - 1
          THEN sift_up([data EXCEPT ![pos + 1] = data[child + 1]], child, element)
          ELSE sift_up(data, pos, element)

\* BinaryHeap::push
heap_push(data, item) == sift_up(Append(data, item), Len(data), item)

\* BinaryHeap::pop, for a heap that is not empty: the vector that is left
heap_pop(data) ==
  LET last == data[Len(data)]
      rest == SubSeq(data, 1, Len(data) - 1)
  IN IF rest = <<>> THEN rest ELSE sift_down_to_bottom(rest, 0, last)

\* PriorityMailbox::push: refused when the heap is at capacity
Push(priority) ==
  /\ pushes < MaxPushes
  /\ pushes' = pushes + 1
  /\ mailbox' = IF Len(mailbox) >= MailboxCapacity
                THEN mailbox
                ELSE heap_push(mailbox, PrioritizedMessage(priority, pushes + 1))
  /\ discarded' = IF Len(mailbox) >= MailboxCapacity
                  THEN PrioritizedMessage(priority, pushes + 1)
                  ELSE discarded
  /\ UNCHANGED <<popped, auraVars, momVars, resolverVars, storeVars>>
  /\ UNCHANGED <<dbVars, call, ops, receipts, frozen_done, spent0, utc, outsideLedger>>

\* PriorityMailbox::pop
Pop ==
  /\ IF mailbox = <<>>
     THEN /\ popped' = NoMessage
          /\ UNCHANGED mailbox
     ELSE /\ popped' = mailbox[1]
          /\ mailbox' = heap_pop(mailbox)
  /\ UNCHANGED <<pushes, discarded, auraVars, momVars, resolverVars, storeVars>>
  /\ UNCHANGED <<dbVars, call, ops, receipts, frozen_done, spent0, utc, outsideLedger>>

InitMailbox ==
  /\ EmptyLedger
  /\ budgets = <<>>
  /\ spent0 = <<>>
  /\ rates = <<>>
  /\ EmptyBreaker
  /\ EmptyRouter
  /\ EmptyBoard

NextMailbox ==
  \/ \E priority \in Priorities : Push(priority)
  \/ Pop

SpecMailbox == InitMailbox /\ [][NextMailbox]_vars

\* ---------------------------------------------------------------- resolver
\* the key of ConsensusState.values a payload writes
value_key(kind) == IF kind = "Proposal" THEN "proposal" ELSE "observation"

\* StateResolver::collapse: fold the messages in the order given, a later
\* message overwriting the value an earlier one put under the same key
RECURSIVE collapse_from(_, _, _, _)
collapse_from(thread_id, messages, values, last_updated) ==
  IF messages = <<>>
  THEN ConsensusState(thread_id, values, last_updated)
  ELSE LET msg == Head(messages)
       IN collapse_from(thread_id, Tail(messages),
                        Put(values, value_key(msg.kind), msg.content),
                        IF msg.created_at > last_updated THEN msg.created_at ELSE last_updated)

collapse(thread_id, messages) == collapse_from(thread_id, messages, <<>>, MIN_UTC)

\* SELECT * FROM blackboard WHERE correlation_id = $thread_id ORDER BY created_at ASC:
\* the orders in which the query can return the rows; the statement orders
\* rows of equal created_at in no way
query_results(thread_id) ==
  LET rows == {row \in blackboard : row.correlation_id = thread_id}
      n == Cardinality(rows)
  IN {messages \in [1..n -> rows] :
        /\ \A i, j \in 1..n : i # j => messages[i] # messages[j]
        /\ \A i, j \in 1..n : i < j => messages[i].created_at <= messages[j].created_at}

\* a message is stored on the blackboard; the database generates the record id
PostVox(id, thread_id, kind, content, created_at) ==
  /\ Cardinality(blackboard) < MaxMessages
  /\ \A row \in blackboard : row.id # id
  /\ blackboard' = blackboard \cup {VoxMessage(id, thread_id, kind, content, created_at)}
  /\ UNCHANGED <<resolved, auraVars, momVars, mailboxVars, storeVars>>
  /\ UNCHANGED <<dbVars, call, ops, receipts, frozen_done, spent0, utc, outsideLedger>>

\* StateResolver::resolve_thread
ResolveThread(thread_id) ==
  /\ \E messages \in query_results(thread_id) :
       resolved' = <<[stored |-> {row \in blackboard : row.correlation_id = thread_id},
                     state |-> collapse(thread_id, messages)]>>
                   \o (IF resolved = <<>> THEN <<>> ELSE <<resolved[1]>>)
  /\ UNCHANGED <<blackboard, auraVars, momVars, mailboxVars, storeVars>>
  /\ UNCHANGED <<dbVars, call, ops, receipts, frozen_done, spent0, utc, outsideLedger>>

InitResolver ==
  /\ EmptyLedger
  /\ budgets = <<>>
  /\ spent0 = <<>>
  /\ rates = <<>>
  /\ EmptyBreaker
  /\ EmptyRouter
  /\ EmptyBoard

NextResolver ==
  \/ \E id \in 1..MaxMessages, thread_id \in ThreadIds, kind \in PayloadKinds,
        content \in Contents, created_at \in 1..MaxCreatedAt :
        PostVox(id, thread_id, kind, content, created_at)
  \/ \E thread_id \in ThreadIds : ResolveThread(thread_id)

SpecResolver == InitResolver /\ [][NextResolver]_vars

\* ----------------------------------------------------------- working memory
saturating_sub(a, b) == IF a >= b THEN a - b ELSE 0

Victims_PinnedToo(entries) == DOMAIN entries

\* the entries evict_if_needed may pick as victim
Victims(entries) == {k \in DOMAIN entries : ~ entries[k].is_pinned}

\* evict_if_needed's loop: the cache and size it can end with.  The victim is
\* the entry of least eviction_priority among the non-pinned ones; which one
\* that is depends on elapsed time, so any of them may be it.
RECURSIVE evict_loop(_, _)
evict_loop(entries, size) ==
  IF size > MAX_MEMORY_BYTES /\ Victims(entries) # {}
  THEN UNION {evict_loop(Delete(entries, k), saturating_sub(size, entries[k].estimated_size)) :
                k \in Victims(entries)}
  ELSE {[cache |-> entries, size |-> size]}

MemFrame ==
  UNCHANGED <<auraVars, momVars, mailboxVars, resolverVars, graphVars, countVars, otherVars>>
LedgerFrame == UNCHANGED <<dbVars, call, ops, receipts, frozen_done, spent0, utc, outsideLedger>>

\* insert: the block that holds both locks
Insert(t, key, size, is_pinned) ==
  /\ mem[t].pc = "idle" /\ mem_ops < MaxMemOps
  /\ mem_ops' = mem_ops + 1
  /\ cache' = Put(cache, key, CacheEntry(is_pinned, size, 1))
  /\ total_size' = (IF key \in DOMAIN cache
                    THEN saturating_sub(total_size, cache[key].estimated_size)
                    ELSE total_size) + size
  /\ mem' = [mem EXCEPT ![t].pc = "evict_if_needed"]
  /\ pins' = IF is_pinned
             THEN [pins EXCEPT !.ever = @ \cup {key}, !.kept = @ \cup {key}]
             ELSE [pins EXCEPT !.kept = @ \ {key}]
  /\ MemFrame /\ LedgerFrame

\* evict_if_needed: read total_size; return when it is within the capacity
EvictRead(t) ==
  /\ mem[t].pc = "evict_if_needed"
  /\ mem' = IF total_size <= MAX_MEMORY_BYTES
            THEN [mem EXCEPT ![t] = IdleWorker]
            ELSE [mem EXCEPT ![t] = [pc |-> "evict", size |-> total_size]]
  /\ UNCHANGED <<cache, total_size, mem_ops, pins>>
  /\ MemFrame /\ LedgerFrame

\* evict_if_needed: take the cache lock, evict, write total_size
Evict(t) ==
  /\ mem[t].pc = "evict"
  /\ \E outcome \in evict_loop(cache, mem[t].size) :
       /\ cache' = outcome.cache
       /\ total_size' = outcome.size
  /\ mem' = [mem EXCEPT ![t] = IdleWorker]
  /\ pins' = [pins EXCEPT !.dropped = @ \cup (DOMAIN cache \ DOMAIN cache')]
  /\ UNCHANGED mem_ops
  /\ MemFrame /\ LedgerFrame

\* get: touch the entry
Get(t, key) ==
  /\ mem[t].pc = "idle" /\ mem_ops < MaxMemOps
  /\ key \in DOMAIN cache
  /\ mem_ops' = mem_ops + 1
  /\ cache' = [cache EXCEPT ![key].access_count = @ + 1]
  /\ UNCHANGED <<total_size, mem, pins>>
  /\ MemFrame /\ LedgerFrame

\* remove
Remove(t, key) ==
  /\ mem[t].pc = "idle" /\ mem_ops < MaxMemOps
  /\ mem_ops' = mem_ops + 1
  /\ IF key \in DOMAIN cache
     THEN /\ cache' = Delete(cache, key)
          /\ total_size' = saturating_sub(total_size, cache[key].estimated_size)
     ELSE UNCHANGED <<cache, total_size>>
  /\ pins' = [pins EXCEPT !.ever = @ \ {key}, !.kept = @ \ {key}]
  /\ UNCHANGED mem
  /\ MemFrame /\ LedgerFrame

\* the sum of estimated_size over the entries
RECURSIVE SumSizes(_, _)
SumSizes(entries, keys) ==
  IF keys = {} THEN 0
  ELSE LET k == CHOOSE k \in keys : TRUE
       IN entries[k].estimated_size + SumSizes(entries, keys \ {k})

\* clear: retain the pinned entries, recompute total_size
Clear(t) ==
  /\ mem[t].pc = "idle" /\ mem_ops < MaxMemOps
  /\ mem_ops' = mem_ops + 1
  /\ LET retained == {k \in DOMAIN cache : cache[k].is_pinned}
     IN /\ cache' = [k \in retained |-> cache[k]]
        /\ total_size' = SumSizes(cache, retained)
        /\ pins' = [pins EXCEPT !.dropped = @ \cup (DOMAIN cache \ retained)]
  /\ UNCHANGED mem
  /\ MemFrame /\ LedgerFrame

InitMemory ==
  /\ EmptyLedger
  /\ budgets = <<>>
  /\ spent0 = <<>>
  /\ rates = <<>>
  /\ EmptyBreaker
  /\ EmptyRouter
  /\ EmptyBoard

NextMemory ==
  \E t \in MemThreads :
    \/ \E key \in Keys, size \in EntrySizes, is_pinned \in BOOLEAN : Insert(t, key, size, is_pinned)
    \/ EvictRead(t)
    \/ Evict(t)
    \/ \E key \in Keys : Get(t, key)
    \/ \E key \in Keys : Remove(t, key)
    \/ Clear(t)

SpecMemory == InitMemory /\ [][NextMemory]_vars

\* ---------------------------------------------------------- knowledge graph
GraphFrame ==
  UNCHANGED <<auraVars, momVars, mailboxVars, resolverVars, memoryVars, countVars, otherVars>>

\* insert_node: CREATE nodes CONTENT $node; the row gets the record id
\* nodes:<node.id>, and CREATE fails when that record exists
insert_node(id) ==
  /\ kg.count < MaxGraphOps
  /\ nodes' = nodes \cup {Thing("nodes", id)}
  /\ kg' = [op |-> "insert_node", id |-> id, removed |-> {}, count |-> kg.count + 1]
  /\ UNCHANGED edges
  /\ GraphFrame /\ LedgerFrame

\* insert_edge: CREATE edges CONTENT $edge; no check that the nodes exist.
\* The row holds from_id and to_id in one of the two forms.
insert_edge(id, from_id, to_id) ==
  /\ kg.count < MaxGraphOps
  /\ edges' = IF \E e \in edges : e.id = id
              THEN edges
              ELSE edges \cup {KnowledgeEdge(id, from_id, to_id)}
  /\ kg' = [op |-> "insert_edge", id |-> id, removed |-> {}, count |-> kg.count + 1]
  /\ UNCHANGED nodes
  /\ GraphFrame /\ LedgerFrame

delete_node_RawOnly(id) ==
  /\ kg.count < MaxGraphOps
  /\ LET incident == {e \in edges : e.from_id = Raw(id) \/ e.to_id = Raw(id)}
     IN /\ nodes' = {n \in nodes : ~ (n = Raw(id) \/ n = Thing("nodes", id))}
        /\ edges' = edges \ incident
        /\ kg' = [op |-> "delete_node", id |-> id, removed |-> incident, count |-> kg.count + 1]
  /\ GraphFrame /\ LedgerFrame

\* delete_node: one transaction with both DELETE statements
delete_node(id) ==
  /\ kg.count < MaxGraphOps
  /\ LET incident == {e \in edges :
                        \/ e.from_id = Raw(id) \/ e.from_id = Thing("nodes", id)
                        \/ e.to_id = Raw(id) \/ e.to_id = Thing("nodes", id)}
     IN /\ nodes' = {n \in nodes : ~ (n = Raw(id) \/ n = Thing("nodes", id))}
        /\ edges' = edges \ incident
        /\ kg' = [op |-> "delete_node", id |-> id, removed |-> incident, count |-> kg.count + 1]
  /\ GraphFrame /\ LedgerFrame

InitGraph ==
  /\ EmptyLedger
  /\ budgets = <<>>
  /\ spent0 = <<>>
  /\ rates = <<>>
  /\ EmptyBreaker
  /\ EmptyRouter
  /\ EmptyBoard

NextGraph ==
  \/ \E id \in NodeIds : insert_node(id)
  \/ \E id \in EdgeIds, from \in NodeIds, to \in NodeIds :
       \E from_id \in IdForms(from), to_id \in IdForms(to) : insert_edge(id, from_id, to_id)
  \/ \E id \in NodeIds : delete_node(id)

SpecGraph == InitGraph /\ [][NextGraph]_vars

\* ---------------------------------------------------------- circuit breaker
\* CircuitBreaker::new(): thresholds, in ticks of 30 s
failure_threshold == 3
reset_timeout == 10
window_duration == 1
\* Duration::from_secs(60) of the stuck-canary check
StuckTimeout == 2

CircuitState(state, failures, last_failure, open_until, canary_in_flight, canary_sent_at) ==
  [state |-> state, failures |-> failures, last_failure |-> last_failure,
   open_until |-> open_until, canary_in_flight |-> canary_in_flight,
   canary_sent_at |-> canary_sent_at]

\* Instant::duration_since saturates to zero
duration_since(now, earlier) == IF now >= earlier THEN now - earlier ELSE 0

\* is_open, first part (read lock): "true", "false", or "write" when it falls
\* through to the transition logic
is_open_read(model, now) ==
  IF model \notin DOMAIN states THEN "false"
  ELSE LET state_entry == states[model]
       IN CASE state_entry.state = "Closed" -> "false"
            [] state_entry.state = "Open" ->
                 IF state_entry.open_until # NoInstant /\ now < state_entry.open_until
                 THEN "true" ELSE "write"
            [] state_entry.state = "HalfOpen" ->
                 IF /\ state_entry.canary_in_flight
                    /\ state_entry.canary_sent_at # NoInstant
                    /\ duration_since(now, state_entry.canary_sent_at) < StuckTimeout
                 THEN "true" ELSE "write"

ArmCanary_NoRecheck(state_guard, now) == TRUE

\* the re-check of HalfOpen under the write lock: TRUE when a canary is armed now
ArmCanary(state_guard, now) ==
  LET stuck == IF state_guard.canary_sent_at = NoInstant THEN TRUE
               ELSE duration_since(now, state_guard.canary_sent_at) >= StuckTimeout
  IN (~ state_guard.canary_in_flight) \/ stuck

\* is_open, second part (write lock): the value returned and the new map
is_open_write(model, now) ==
  IF model \notin DOMAIN states THEN [open |-> FALSE, states |-> states]
  ELSE LET state_guard == states[model]
           armed == [state_guard EXCEPT !.state = "HalfOpen", !.canary_in_flight = TRUE,
                                        !.canary_sent_at = now]
       IN CASE state_guard.state = "Open" ->
                 IF state_guard.open_until # NoInstant /\ now >= state_guard.open_until
                 THEN [open |-> FALSE, states |-> [states EXCEPT ![model] = armed]]
                 ELSE [open |-> TRUE, states |-> states]
            [] state_guard.state = "HalfOpen" ->
                 IF ArmCanary(state_guard, now)
                 THEN [open |-> FALSE, states |-> [states EXCEPT ![model] = armed]]
                 ELSE [open |-> TRUE, states |-> states]
            [] OTHER -> [open |-> FALSE, states |-> states]

report_failure_StaleOpenUntil(model, now) ==
  LET state_guard == IF model \in DOMAIN states THEN states[model]
                     ELSE CircuitState("Closed", 0, now, NoInstant, FALSE, NoInstant)
      counted == IF now - state_guard.last_failure > window_duration
                 THEN 1 ELSE state_guard.failures + 1
      after ==
        CASE state_guard.state = "HalfOpen" ->
               [state_guard EXCEPT !.state = "Open", !.failures = failure_threshold,
                                   !.canary_in_flight = FALSE, !.canary_sent_at = NoInstant]
          [] state_guard.state = "Open" ->
               [state_guard EXCEPT !.open_until = now + reset_timeout]
          [] state_guard.state = "Closed" ->
               IF counted >= failure_threshold
               THEN [state_guard EXCEPT !.failures = counted, !.last_failure = now,
                                        !.state = "Open", !.open_until = now + reset_timeout]
               ELSE [state_guard EXCEPT !.failures = counted, !.last_failure = now]
  IN Put(states, model, after)

report_failure_WindowExclusive(model, now) ==
  LET state_guard == IF model \in DOMAIN states THEN states[model]
                     ELSE CircuitState("Closed", 0, now, NoInstant, FALSE, NoInstant)
      counted == IF now - state_guard.last_failure >= window_duration
                 THEN 1 ELSE state_guard.failures + 1
      after ==
        CASE state_guard.state = "HalfOpen" ->
               [state_guard EXCEPT !.state = "Open", !.open_until = now + reset_timeout,
                                   !.failures = failure_threshold,
                                   !.canary_in_flight = FALSE, !.canary_sent_at = NoInstant]
          [] state_guard.state = "Open" ->
               [state_guard EXCEPT !.open_until = now + reset_timeout]
          [] state_guard.state = "Closed" ->
               IF counted >= failure_threshold
               THEN [state_guard EXCEPT !.failures = counted, !.last_failure = now,
                                        !.state = "Open", !.open_until = now + reset_timeout]
               ELSE [state_guard EXCEPT !.failures = counted, !.last_failure = now]
  IN Put(states, model, after)

\* report_failure: the new map
report_failure(model, now) ==
  LET state_guard == IF model \in DOMAIN states THEN states[model]
                     ELSE CircuitState("Closed", 0, now, NoInstant, FALSE, NoInstant)
      counted == IF now - state_guard.last_failure > window_duration
                 THEN 1 ELSE state_guard.failures + 1
      after ==
        CASE state_guard.state = "HalfOpen" ->
               [state_guard EXCEPT !.state = "Open", !.open_until = now + reset_timeout,
                                   !.failures = failure_threshold,
                                   !.canary_in_flight = FALSE, !.canary_sent_at = NoInstant]
          [] state_guard.state = "Open" ->
               [state_guard EXCEPT !.open_until = now + reset_timeout]
          [] state_guard.state = "Closed" ->
               IF counted >= failure_threshold
               THEN [state_guard EXCEPT !.failures = counted, !.last_failure = now,
                                        !.state = "Open", !.open_until = now + reset_timeout]
               ELSE [state_guard EXCEPT !.failures = counted, !.last_failure = now]
  IN Put(states, model, after)

\* report_success: the new map
report_success(model) ==
  IF model \notin DOMAIN states THEN states
  ELSE [states EXCEPT ![model] = [@ EXCEPT !.state = "Closed", !.failures = 0,
                                           !.open_until = NoInstant,
                                           !.canary_in_flight = FALSE,
                                           !.canary_sent_at = NoInstant]]

\* count_open: circuits that are not Closed
count_open == Cardinality({m \in DOMAIN states : states[m].state # "Closed"})

\* total_models
total_models == Cardinality(DOMAIN states)

\* history: a canary was armed by an is_open call whose `now` is `now`
CanaryArmed(model, now) == admitted' = [admitted EXCEPT ![model] = Append(@, now)]

\* history: a report for the model resolves the canaries armed so far
CanaryResolved(model) == admitted' = [admitted EXCEPT ![model] = <<>>]

\* ------------------------------------------ breaker callers (router requests)
\* A thread is one router request seen from the breaker: it asks is_open for
\* its tier's model, and when admitted it calls the provider and afterwards
\* reports success, reports failure, or reports nothing (non-transient
\* provider error, lease denied).
ThreadIsOpen(t) ==
  /\ thr[t].pc = "idle"
  /\ \E m \in ThreadModels :
       LET r == is_open_read(m, clock)
       IN thr' = [thr EXCEPT ![t] = [pc |-> CASE r = "false" -> "in_flight"
                                               [] r = "true" -> "idle"
                                               [] r = "write" -> "write",
                                     model |-> m,
                                     now |-> IF r = "write" THEN clock ELSE 0,
                                     last |-> IF r = "true" THEN "rejected" ELSE ""]]
  /\ UNCHANGED <<states, clock, admitted, outsideBreaker>>

ThreadIsOpenWrite(t) ==
  /\ thr[t].pc = "write"
  /\ LET w == is_open_write(thr[t].model, thr[t].now)
     IN /\ states' = w.states
        /\ thr' = [thr EXCEPT ![t] =
                     IF w.open
                     THEN [IdleThread EXCEPT !.model = thr[t].model, !.last = "rejected"]
                     ELSE [pc |-> "in_flight", model |-> thr[t].model, now |-> 0, last |-> ""]]
        /\ IF ~ w.open /\ w.states[thr[t].model].state = "HalfOpen"
           THEN CanaryArmed(thr[t].model, thr[t].now)
           ELSE UNCHANGED admitted
  /\ UNCHANGED <<clock, outsideBreaker>>

ThreadReportSuccess(t) ==
  /\ thr[t].pc = "in_flight"
  /\ states' = report_success(thr[t].model)
  /\ CanaryResolved(thr[t].model)
  /\ thr' = [thr EXCEPT ![t] = [IdleThread EXCEPT !.model = thr[t].model, !.last = "success"]]
  /\ UNCHANGED <<clock, outsideBreaker>>

ThreadReportFailure(t) ==
  /\ thr[t].pc = "in_flight"
  /\ states' = report_failure(thr[t].model, clock)
  /\ CanaryResolved(thr[t].model)
  /\ thr' = [thr EXCEPT ![t] = [IdleThread EXCEPT !.model = thr[t].model, !.last = "failure"]]
  /\ UNCHANGED <<clock, outsideBreaker>>

ThreadAbandon(t) ==
  /\ thr[t].pc = "in_flight"
  /\ thr' = [thr EXCEPT ![t] = IdleThread]
  /\ UNCHANGED <<states, clock, admitted, outsideBreaker>>

Tick ==
  /\ clock < MaxTime
  /\ clock' = clock + 1
  /\ UNCHANGED <<states, thr, admitted, outsideBreaker>>

InitBreaker ==
  /\ EmptyBreaker
  /\ EmptyLedger
  /\ budgets = <<>>
  /\ spent0 = <<>>
  /\ rates = <<>>
  /\ EmptyRouter
  /\ EmptyBoard

NextBreaker ==
  \/ \E t \in Threads :
       \/ ThreadIsOpen(t)
       \/ ThreadIsOpenWrite(t)
       \/ ThreadReportSuccess(t)
       \/ ThreadReportFailure(t)
       \/ ThreadAbandon(t)
  \/ Tick

SpecBreaker == InitBreaker /\ [][NextBreaker]_vars

\* --------------------------------------------- reports, one after the other
\* report_failure and report_success each run under the lock of the model's
\* map entry; here a breaker receives them one at a time as time passes.
CountFrame ==
  UNCHANGED <<dbVars, call, ops, receipts, frozen_done, spent0, utc, routerVars,
              auraVars, momVars, mailboxVars, resolverVars, memoryVars, graphVars,
              otherVars, clock, thr, admitted>>

\* the latest failure_threshold instants, with `now` added
Remember(instants, now) ==
  LET all == Append(instants, now)
  IN IF Len(all) > failure_threshold THEN Tail(all) ELSE all

ReportFailure(m) ==
  /\ states' = report_failure(m, clock)
  /\ failed' = [failed EXCEPT ![m] = Remember(@, clock)]
  /\ CountFrame

ReportSuccess(m) ==
  /\ states' = report_success(m)
  /\ UNCHANGED failed
  /\ CountFrame

NextCounting ==
  \/ \E m \in ThreadModels :
       \/ ReportFailure(m)
       \/ ReportSuccess(m)
  \/ Tick

SpecCounting == InitBreaker /\ [][NextCounting]_vars

\* ------------------------------------------------------- Router::complete
AgentId == "default"
RetryCauses == {"None", "ValidationFailure"}
Profiles == {<<"m1", "m2", "m3">>, <<"m1", NoModel, NoModel>>}
Transient == {"RateLimitExceeded", "NetworkError", "ApiError"}
ProviderErrors == {"RateLimitExceeded", "InvalidResponse"}
ProviderModel == "provider-reported"
PromptTokens == 10
CompletionTokens == 10
max_retries == 2
NoCost == -1

\* n / d rounded to the nearest integer, ties to even (IEEE 754 division)
RoundHalfEven(n, d) ==
  LET q == n \div d
      rem == n % d
  IN IF 2 * rem < d THEN q
     ELSE IF 2 * rem > d THEN q + 1
     ELSE IF q % 2 = 0 THEN q ELSE q + 1

\* the f32 literal 0.8 is 13421773 * 2^-24
F32PointEight == 13421773
F32Mantissa == 16777216

backpressure_MoreThanThree(total, open) ==
  /\ total > 3
  /\ 2 * open >= total
  /\ RoundHalfEven(open * F32Mantissa, total) >= F32PointEight

\* total >= 3 && (open as f32 / total as f32) >= 0.8
backpressure(total, open) ==
  /\ total >= 3
  /\ 2 * open >= total
  /\ RoundHalfEven(open * F32Mantissa, total) >= F32PointEight

start_tier_AlwaysOne(retry_cause) == 1

\* Some(RetryCause::ValidationFailure) starts at tier 2, anything else at tier 1
start_tier(retry_cause) == IF retry_cause = "ValidationFailure" THEN 2 ELSE 1

est_cost(tier_num) ==
  CASE tier_num = 1 -> 10000
    [] tier_num = 2 -> 50000
    [] OTHER -> 200000

retry_OneMore(attempt, e) == e \in Transient /\ attempt <= max_retries + 1

\* the retry decision after a failed attempt; attempt is already incremented
retry(attempt, e) == e \in Transient /\ attempt <= max_retries

\* the tier loop: the first configured tier at or after `from`, 0 when none is left
NextTier(profile, from) ==
  IF \E k \in from..3 : profile[k] # NoModel
  THEN CHOOSE k \in from..3 :
         profile[k] # NoModel /\ \A j \in from..(k - 1) : profile[j] = NoModel
  ELSE 0

\* the request record at the top of the next loop iteration
Continue(req, from) ==
  LET k == NextTier(req.profile, from)
      left == [req EXCEPT !.attempt = 0, !.calls = 0, !.lease_guard = NoLease,
                          !.settled = FALSE]
  IN IF k = 0 THEN [left EXCEPT !.pc = "exhausted", !.tier = 0]
     ELSE [left EXCEPT !.pc = "is_open", !.tier = k]

Model(r) == rt[r].profile[rt[r].tier]

RoutingLog(selected_tier, selected_model, retry_count, cost, is_critical) ==
  [selected_tier |-> selected_tier, selected_model |-> selected_model,
   retry_count |-> retry_count, cost |-> cost, is_critical |-> is_critical]

log_routing(r, log) == logs' = [logs EXCEPT ![r] = Append(@, log)]

\* Drop for LeaseGuard: an unsettled guard spawns the cleanup commit
DropGuard(req) ==
  IF req.lease_guard # NoLease /\ ~ req.settled THEN spawned \cup {req.lease_guard} ELSE spawned

\* what the claim calls the gate: at least 3 monitored models, 80% of them open
GateCondition ==
  /\ Cardinality(DOMAIN states) >= 3
  /\ 10 * Cardinality({m \in DOMAIN states : states[m].state # "Closed"})
       >= 8 * Cardinality(DOMAIN states)

\* complete() is called: the backpressure check
Complete(r) ==
  /\ rt[r].pc = "idle"
  /\ \E cause \in RetryCauses :
       rt' = [rt EXCEPT ![r] =
                [IdleRequest EXCEPT !.retry_cause = cause, !.gate = GateCondition,
                   !.pc = IF backpressure(total_models, count_open)
                          THEN "backpressure" ELSE "profile"]]
  /\ UNCHANGED <<ledgerVars, breakerVars, logs, spawned>>

\* the critical routing record of the backpressure return
BackpressureLog(r) ==
  /\ rt[r].pc = "backpressure"
  /\ log_routing(r, RoutingLog(0, "BACKPRESSURE", 0, NoCost, TRUE))
  /\ rt' = [rt EXCEPT ![r].pc = "done", ![r].result = "Backpressure"]
  /\ UNCHANGED <<ledgerVars, breakerVars, spawned>>

\* get_profile, the starting tier and the first loop iteration
GetProfile(r) ==
  /\ rt[r].pc = "profile"
  /\ \E profile \in Profiles :
       rt' = [rt EXCEPT ![r] = Continue([rt[r] EXCEPT !.profile = profile],
                                        start_tier(rt[r].retry_cause))]
  /\ UNCHANGED <<ledgerVars, breakerVars, logs, spawned>>

\* circuit_breaker.is_open(&config.model), read part
RouterIsOpen(r) ==
  /\ rt[r].pc = "is_open"
  /\ LET res == is_open_read(Model(r), clock)
     IN rt' = [rt EXCEPT ![r] =
                 CASE res = "false" -> [rt[r] EXCEPT !.pc = "lease"]
                   [] res = "true" -> Continue(rt[r], rt[r].tier + 1)
                   [] res = "write" -> [rt[r] EXCEPT !.pc = "is_open_write", !.now = clock]]
  /\ UNCHANGED <<ledgerVars, breakerVars, logs, spawned>>

\* circuit_breaker.is_open(&config.model), write part
RouterIsOpenWrite(r) ==
  /\ rt[r].pc = "is_open_write"
  /\ LET w == is_open_write(Model(r), rt[r].now)
     IN /\ states' = w.states
        /\ rt' = [rt EXCEPT ![r] = IF w.open THEN Continue(rt[r], rt[r].tier + 1)
                                   ELSE [rt[r] EXCEPT !.pc = "lease"]]
        /\ IF ~ w.open /\ w.states[Model(r)].state = "HalfOpen"
           THEN CanaryArmed(Model(r), rt[r].now)
           ELSE UNCHANGED admitted
  /\ UNCHANGED <<ledgerVars, clock, thr, logs, spawned>>

\* ledger.request_lease(agent_id, est_cost): the call starts
RouterRequestLease(r) ==
  /\ rt[r].pc = "lease"
  /\ request_lease_fetch(r, AgentId, est_cost(rt[r].tier))
  /\ LedgerHistory(r)
  /\ rt' = [rt EXCEPT ![r].pc = "lease_wait"]
  /\ UNCHANGED <<ops, breakerVars, logs, spawned>>

LeaseDenied_NextTier(req) == Continue([req EXCEPT !.denied = req.tier], req.tier + 1)

\* Err(e) from request_lease: return Err(ApiError("Budget exceeded: ..."))
LeaseDenied(req) == [req EXCEPT !.pc = "done", !.result = "BudgetDenied", !.denied = req.tier]

\* the match on request_lease's result: a LeaseGuard, or the fatal return
RouterLeaseReturn(r) ==
  /\ rt[r].pc = "lease_wait" /\ call[r].pc = "ret"
  /\ rt' = [rt EXCEPT ![r] =
              IF call[r].result = "Ok"
              THEN [rt[r] EXCEPT !.pc = "provider", !.lease_guard = call[r].lease_id,
                                 !.settled = FALSE, !.attempt = 0, !.outcome = "",
                                 !.obtained = @ \cup {call[r].lease_id}]
              ELSE LeaseDenied(rt[r])]
  /\ call' = [call EXCEPT ![r] = Idle]
  /\ UNCHANGED <<dbVars, ops, ledgerHist, breakerVars, logs, spawned>>

\* client.complete returns Ok: report_success and settle the guard
ProviderOk(r) ==
  /\ rt[r].pc = "provider"
  /\ states' = report_success(Model(r))
  /\ CanaryResolved(Model(r))
  /\ rt' = [rt EXCEPT ![r].pc = "commit", ![r].settled = TRUE,
                      ![r].response_model = ProviderModel,
                      ![r].calls = @ + 1, ![r].outcome = "Ok",
                      ![r].succeeded = rt[r].tier]
  /\ UNCHANGED <<ledgerVars, clock, thr, logs, spawned>>

\* client.complete returns Err(e): retry, or leave the tier
ProviderErr(r) ==
  /\ rt[r].pc = "provider"
  /\ \E e \in ProviderErrors :
       LET attempt == rt[r].attempt + 1
           called == [rt[r] EXCEPT !.attempt = attempt, !.calls = @ + 1, !.outcome = e]
       IN IF retry(attempt, e)
          THEN /\ rt' = [rt EXCEPT ![r] = [called EXCEPT !.pc = "backoff"]]
               /\ UNCHANGED <<states, admitted, spawned>>
          ELSE /\ spawned' = DropGuard(rt[r])
               /\ IF e \in Transient
                  THEN /\ states' = report_failure(Model(r), clock)
                       /\ CanaryResolved(Model(r))
                       /\ rt' = [rt EXCEPT ![r] =
                                   Continue([called EXCEPT !.last_error = e], rt[r].tier + 1)]
                  ELSE /\ rt' = [rt EXCEPT ![r] = Continue(called, rt[r].tier + 1)]
                       /\ UNCHANGED <<states, admitted>>
  /\ UNCHANGED <<ledgerVars, clock, thr, logs>>

\* sleep(100 ms * 2^attempt) is over
BackoffDone(r) ==
  /\ rt[r].pc = "backoff"
  /\ rt' = [rt EXCEPT ![r].pc = "provider"]
  /\ UNCHANGED <<ledgerVars, breakerVars, logs, spawned>>

\* ledger.commit_usage(&actual_lease_id, usage): the call starts
RouterCommitUsage(r) ==
  /\ rt[r].pc = "commit"
  /\ commit_usage_lease(r, rt[r].lease_guard, Usage(PromptTokens, CompletionTokens, Model(r)))
  /\ LedgerHistory(r)
  /\ rt' = [rt EXCEPT ![r].pc = "commit_wait"]
  /\ UNCHANGED <<ops, breakerVars, logs, spawned>>

\* the routing record of the successful tier; response.model = config.model
RouterLogSuccess(r) ==
  /\ rt[r].pc = "commit_wait" /\ call[r].pc = "ret"
  /\ log_routing(r, RoutingLog(rt[r].tier, Model(r), rt[r].attempt,
                               IF call[r].result = "Receipt" THEN call[r].actual_cost ELSE NoCost,
                               FALSE))
  /\ rt' = [rt EXCEPT ![r].pc = "done", ![r].result = "Ok", ![r].response_model = Model(r)]
  /\ call' = [call EXCEPT ![r] = Idle]
  /\ UNCHANGED <<dbVars, ops, ledgerHist, breakerVars, spawned>>

\* all tiers failed: the critical routing record and Err(last_error)
RouterLogExhausted(r) ==
  /\ rt[r].pc = "exhausted"
  /\ log_routing(r, RoutingLog(0, "NONE", 0, NoCost, TRUE))
  /\ rt' = [rt EXCEPT ![r].pc = "done", ![r].result = rt[r].last_error]
  /\ UNCHANGED <<ledgerVars, breakerVars, spawned>>

\* the caller drops the complete() future at an await: locals are dropped
AwaitPcs == {"backpressure", "profile", "lease_wait", "provider", "backoff", "commit_wait",
             "exhausted"}

Cancel(r) ==
  /\ rt[r].pc \in AwaitPcs
  /\ spawned' = DropGuard(rt[r])
  /\ rt' = [rt EXCEPT ![r].pc = "done", ![r].result = "Cancelled", ![r].lease_guard = NoLease]
  /\ call' = [call EXCEPT ![r] = Idle]
  /\ UNCHANGED <<dbVars, ops, ledgerHist, breakerVars, logs>>

\* the task spawned by LeaseGuard::drop: commit_usage with zero usage
CleanerStart(g) ==
  /\ g[2] \in spawned
  /\ commit_usage_lease(g, g[2], Usage(0, 0, CleanupModel))
  /\ LedgerHistory(g)
  /\ UNCHANGED <<ops, breakerVars, routerVars>>

\* the spawned task ends; the result of commit_usage is discarded
CleanerReturn(g) ==
  /\ call[g].pc = "ret"
  /\ call' = [call EXCEPT ![g] = Idle]
  /\ spawned' = spawned \ {g[2]}
  /\ UNCHANGED <<dbVars, ops, ledgerHist, breakerVars, rt, logs>>

\* the router's starting states: a budget for the agent, the rate table as the
\* deployment set it, and a breaker that may have seen failures before
RouterStartTime == reset_timeout - 1

OpenedAtZero == CircuitState("Open", failure_threshold, 0, reset_timeout, FALSE, NoInstant)

FailedTwice ==
  CircuitState("Closed", failure_threshold - 1, RouterStartTime, NoInstant, FALSE, NoInstant)

RateConfigs ==
  { [m \in {CleanupModel} |-> RateTableEntry(0, 0)],
    [m \in Models \cup {CleanupModel} |->
       IF m = CleanupModel THEN RateTableEntry(0, 0) ELSE RateTableEntry(30, 60)] }

BreakerConfigs ==
  { <<>>,
    [m \in Models |-> OpenedAtZero],
    [m \in Models |-> IF m = "m1" THEN OpenedAtZero ELSE FailedTwice] }

\* time passes while the router runs
RouterTick ==
  /\ clock < RouterMaxTime
  /\ clock' = clock + 1
  /\ UNCHANGED <<states, thr, admitted, outsideBreaker>>

InitRouter ==
  /\ EmptyLedger
  /\ \E spent \in {0, 100000} :
       budgets = [e \in {AgentId} |-> Budget(250000, 200000, spent, "Active")]
  /\ spent0 = [e \in DOMAIN budgets |-> budgets[e].spent]
  /\ rates \in RateConfigs
  /\ states \in BreakerConfigs
  /\ clock = RouterStartTime
  /\ thr = [t \in Threads |-> IdleThread]
  /\ admitted = [m \in Models |-> <<>>]
  /\ EmptyRouter
  /\ EmptyBoard

NextRouter ==
  \/ \E r \in Requests :
       \/ Complete(r)
       \/ BackpressureLog(r)
       \/ GetProfile(r)
       \/ RouterIsOpen(r)
       \/ RouterIsOpenWrite(r)
       \/ RouterRequestLease(r)
       \/ RouterLeaseReturn(r)
       \/ ProviderOk(r)
       \/ ProviderErr(r)
       \/ BackoffDone(r)
       \/ RouterCommitUsage(r)
       \/ RouterLogSuccess(r)
       \/ RouterLogExhausted(r)
       \/ Cancel(r)
       \/ RequestLeaseCreate(r)
       \/ RequestLeaseGrant(r)
  \/ \E t \in Requests \cup Cleaners :
       \/ CommitUsageRate(t)
       \/ CommitUsageFetch(t)
       \/ CommitUsageUpdate(t)
       \/ CommitUsageSettle(t)
       \/ CommitUsageClose(t)
  \/ \E g \in Cleaners :
       \/ CleanerStart(g)
       \/ CleanerReturn(g)
  \/ RouterTick

SpecRouter == InitRouter /\ [][NextRouter]_vars

\* ------------------------------------------- a caller that retries complete()
\* The caller of complete() got Err(Backpressure(wait)) and calls again; the
\* records of the new call are kept from an empty list.
Retry(r) ==
  /\ rt[r].pc = "done" /\ rt[r].result = "Backpressure"
  /\ rt' = [rt EXCEPT ![r] = IdleRequest]
  /\ logs' = [logs EXCEPT ![r] = <<>>]
  /\ UNCHANGED <<ledgerVars, breakerVars, spawned>>

NextRecovery ==
  \/ NextRouter
  \/ \E r \in Requests : Retry(r)

\* every task that can take a step takes one, and time passes
SpecRecovery ==
  InitRouter /\ [][NextRecovery]_vars /\ WF_vars(NextRecovery) /\ WF_vars(RouterTick)

\* ------------------------------------------------------------- claims
RECURSIVE SumEstimates(_)
SumEstimates(ids) ==
  IF ids = {} THEN 0
  ELSE LET l == CHOOSE x \in ids : TRUE
       IN leases[l].estimated_cost + SumEstimates(ids \ {l})

\* C1: in every reachable state of the ledger every entity's budget has
\* spent <= hard_limit.
C1_SpentWithinHardLimit ==
  \A e \in DOMAIN budgets : budgets[e].spent <= budgets[e].hard_limit

\* C2: for every entity, spent plus the estimated_cost of its outstanding
\* leases is <= hard_limit.
C2_ReservedWithinHardLimit ==
  \A e \in DOMAIN budgets :
    budgets[e].spent + SumEstimates({l \in DOMAIN leases : leases[l].entity_id = e})
      <= budgets[e].hard_limit

\* C3: for every lease id at most one commit_usage call returns a Receipt.
C3_NoDoubleCommit ==
  \A l \in 1..MaxLeases : receipts[l] <= 1

\* C10: once freeze_budget(E) has returned, no request_lease(E, .) started
\* later returns a lease id.
C10_FrozenForbidsLeases ==
  \A t \in Tasks :
    ~ (call[t].op = "request_lease" /\ call[t].after_freeze
         /\ call[t].pc = "ret" /\ call[t].result = "Ok")

\* C5: while a model's circuit is Open and now < open_until, no is_open call
\* for the model returns false and the circuit stays Open.
C5_OpenRejectsUntilOpenUntil ==
  [][\A m \in DOMAIN states :
       (states[m].state = "Open" /\ clock < states[m].open_until)
         => /\ states'[m].state = "Open"
            /\ \A t \in Threads :
                 ~ (thr[t].pc # "in_flight" /\ thr'[t].pc = "in_flight" /\ thr'[t].model = m)]_vars

C4_NoLeaseLeak ==
  \A r \in Requests :
    (rt[r].pc = "done" /\ spawned = {} /\ \A g \in Cleaners : call[g].pc = "idle")
      => rt[r].obtained \cap DOMAIN leases = {}

\* C7: within one complete() call the tier number only grows; a tier is left
\* after a transient provider error only by its third provider call; no tier's
\* provider is called more than 3 times; a retry stays in the tier; and a
\* successful call returns the response of the tier whose provider returned
\* Ok, under that tier's model.
C7_Waterfall ==
  [][\A r \in Requests :
       /\ rt'[r].calls <= 3
       /\ (rt[r].pc # "idle" /\ rt'[r].tier # rt[r].tier)
            => (rt'[r].tier > rt[r].tier \/ rt'[r].pc \in {"exhausted", "done"})
       /\ (rt[r].pc = "provider" /\ rt'[r].pc \in {"is_open", "exhausted"}
             /\ rt'[r].outcome \in Transient)
            => rt[r].calls + 1 = 3
       /\ (rt[r].pc = "provider" /\ rt'[r].pc = "backoff")
            => (rt'[r].tier = rt[r].tier /\ rt'[r].outcome \in Transient)
       /\ (rt'[r].pc = "done" /\ rt'[r].result = "Ok")
            => /\ rt'[r].succeeded = rt'[r].tier
               /\ rt'[r].response_model = rt'[r].profile[rt'[r].succeeded]]_vars

\* tier 1 was left after transient errors and tier 2 answered
C7_Witness ==
  \E r \in Requests :
    /\ rt[r].pc = "done" /\ rt[r].result = "Ok" /\ rt[r].tier = 2
    /\ rt[r].last_error \in Transient /\ rt[r].retry_cause = "None"

C8_LeaseBeforeProvider ==
  \A r \in Requests :
    /\ rt[r].pc \in {"provider", "backoff"}
         => /\ rt[r].lease_guard \in rt[r].obtained
            /\ rt[r].lease_guard \in DOMAIN leases
            /\ leases[rt[r].lease_guard].entity_id = AgentId
            /\ leases[rt[r].lease_guard].estimated_cost = est_cost(rt[r].tier)
    /\ rt[r].denied # 0
         => /\ rt[r].pc = "done" /\ rt[r].result = "BudgetDenied"
            /\ rt[r].tier = rt[r].denied /\ rt[r].calls = 0

\* the lease of tier 3 was denied after earlier tiers had obtained theirs
C8_Witness ==
  \E r \in Requests : rt[r].denied = 3 /\ rt[r].obtained # {} /\ rt[r].pc = "done"

\* C9: when at the start of complete() at least 3 models are monitored and
\* open/total >= 0.8, the call goes straight to the Backpressure return: no
\* lease is created, no provider is called, and its only routing record is
\* the critical BACKPRESSURE record.
C9_BackpressureGate ==
  \A r \in Requests :
    rt[r].gate
      => /\ rt[r].pc \in {"backpressure", "done"}
         /\ nextLease = 0 /\ leases = <<>> /\ call[r] = Idle
         /\ rt[r].calls = 0 /\ rt[r].succeeded = 0 /\ rt[r].tier = 0
         /\ rt[r].pc = "backpressure" => logs[r] = <<>>
         /\ rt[r].pc = "done"
              => \/ /\ rt[r].result = "Backpressure"
                    /\ logs[r] = <<RoutingLog(0, "BACKPRESSURE", 0, NoCost, TRUE)>>
                 \/ rt[r].result = "Cancelled" /\ logs[r] = <<>>

C9_Witness ==
  \E r \in Requests : rt[r].gate /\ rt[r].pc = "done" /\ rt[r].result = "Backpressure"

\* the sum of amount over the ledger entries in `entries`, each counted as
\* often as the ledger holds it
RECURSIVE SumAmounts(_)
SumAmounts(entries) ==
  IF entries = {} THEN 0
  ELSE LET x == CHOOSE y \in entries : TRUE
       IN x.amount * CopiesIn(x, ledger) + SumAmounts(entries \ {x})

Settlements(e) ==
  {x \in BagToSet(ledger) : x.entity_id = e /\ x.transaction_type = "Settlement"}

\* the ledger entries of one type that reference a lease, counted with multiplicity
CountEntries(l, type) ==
  LET found == {x \in BagToSet(ledger) : x.lease_id = l /\ x.transaction_type = type}
  IN IF found = {} THEN 0
     ELSE LET x == CHOOSE y \in found : TRUE
          IN CopiesIn(x, ledger) + Cardinality(found \ {x})

\* C11: once every commit_usage call has returned (no lease committed twice,
\* no freeze_budget involved), an entity's spent is its initial spent plus the
\* actual costs of all its settled commits: no increment is lost when
\* commit_usage calls on distinct leases interleave.
C11_NoLostIncrement ==
  (/\ \A t \in Tasks : call[t].pc \in {"idle", "ret"} /\ call[t].op # "freeze_budget"
   /\ frozen_done = {}
   /\ \A l \in 1..MaxLeases : receipts[l] <= 1)
    => \A e \in DOMAIN budgets : budgets[e].spent = spent0[e] + SumAmounts(Settlements(e))

\* C12: for every lease for which a commit_usage call returned a Receipt, the
\* ledger holds exactly one Grant entry and exactly one Settlement entry that
\* reference the lease.
C12_OneGrantOneSettlement ==
  \A l \in 1..MaxLeases :
    receipts[l] >= 1 => (CountEntries(l, "Grant") = 1 /\ CountEntries(l, "Settlement") = 1)

\* C13: the step in which a request_lease call fails is the call's first, and
\* it leaves the budget rows, the lease table, the ledger entries and the rate
\* table as they were; the failed call created no lease.
C13_FailedLeaseChangesNothing ==
  [][\A t \in Tasks :
       (call'[t].op = "request_lease" /\ call'[t].pc = "ret" /\ call'[t].result # "Ok"
          /\ call[t].pc # "ret")
         => /\ call[t].pc = "idle"
            /\ call'[t].lease_id = NoLease
            /\ dbVars' = dbVars]_vars

\* a request_lease on an Active budget was refused for the hard cap while the
\* lease table holds another lease
C13_Witness ==
  \E t \in Tasks :
    /\ call[t].op = "request_lease" /\ call[t].pc = "ret"
    /\ call[t].result = "BudgetExceeded" /\ call[t].entity_id \in DOMAIN budgets
    /\ leases # <<>>

\* C14: a commit_usage call on a lease whose expires_at had passed when the
\* call started does not return a Receipt (it is rejected, and spent and the
\* ledger entries stay as they were).
C14_ExpiredLeaseRejected ==
  \A t \in Tasks :
    (call[t].op = "commit_usage" /\ call[t].expired)
      => /\ call[t].pc \notin {"settle", "close"}
         /\ ~ (call[t].pc = "ret" /\ call[t].result = "Receipt")

\* C15: once an Open circuit's open_until is reached, an is_open call is not
\* rejected: it makes the circuit HalfOpen with one canary armed at the call's
\* time and returns false; a report_success on the HalfOpen circuit makes it
\* Closed with failures = 0 and open_until and the canary cleared; a
\* report_failure on it makes it Open with open_until = now + reset_timeout
\* and failures = failure_threshold.
C15_CanaryRecovery ==
  [][\A t \in Threads :
       LET m == thr'[t].model
           n == thr[t].model
       IN /\ (thr[t].pc = "idle" /\ thr'[t].pc = "idle" /\ thr'[t].last = "rejected"
                /\ thr[t].last # "rejected" /\ m \in DOMAIN states
                /\ states[m].state = "Open")
               => clock < states[m].open_until
          /\ (thr[t].pc = "write" /\ thr'[t].pc # "write" /\ n \in DOMAIN states
                /\ states[n].state = "Open"
                /\ thr[t].now >= states[n].open_until)
               => /\ thr'[t].pc = "in_flight"
                  /\ states'[n].state = "HalfOpen"
                  /\ states'[n].canary_in_flight
                  /\ states'[n].canary_sent_at = thr[t].now
          /\ (thr[t].pc = "in_flight" /\ thr'[t].last = "success" /\ n \in DOMAIN states
                /\ states[n].state = "HalfOpen")
               => /\ states'[n].state = "Closed" /\ states'[n].failures = 0
                  /\ states'[n].open_until = NoInstant
                  /\ ~ states'[n].canary_in_flight
                  /\ states'[n].canary_sent_at = NoInstant
          /\ (thr[t].pc = "in_flight" /\ thr'[t].last = "failure" /\ n \in DOMAIN states
                /\ states[n].state = "HalfOpen")
               => /\ states'[n].state = "Open"
                  /\ states'[n].open_until = clock + reset_timeout
                  /\ states'[n].failures = failure_threshold]_vars

\* a canary armed after reset_timeout failed and the circuit is Open again
C15_Witness ==
  \E t \in Threads, m \in DOMAIN states :
    /\ thr[t].last = "failure" /\ thr[t].model = m
    /\ states[m].state = "Open" /\ states[m].failures = failure_threshold
    /\ states[m].open_until >= 2 * reset_timeout
    /\ states[m].open_until = clock + reset_timeout

\* C16: a request whose retry_cause is ValidationFailure leaves get_profile
\* at tier 2 (or at the next configured tier after it), is never at tier 1,
\* never has tier 1's provider answer and never has a lease granted for tier
\* 1's estimate; every other request leaves get_profile at tier 1.
C16_SmartEscalation ==
  [][\A r \in Requests :
       /\ rt'[r].retry_cause = "ValidationFailure"
            => /\ rt'[r].tier # 1
               /\ rt'[r].succeeded # 1
               /\ \A x \in BagToSet(ledger') :
                    ~ (x.transaction_type = "Grant" /\ x.amount = est_cost(1))
       /\ (rt[r].pc = "profile" /\ rt'[r].pc \notin {"profile", "done"})
            => IF rt'[r].retry_cause = "ValidationFailure"
               THEN /\ rt'[r].profile[2] # NoModel => rt'[r].tier = 2
                    /\ rt'[r].profile[2] = NoModel => rt'[r].tier \in {0, 3}
               ELSE rt'[r].tier = 1 /\ rt'[r].pc = "is_open"]_vars

\* a ValidationFailure request was answered by tier 2
C16_Witness ==
  \E r \in Requests :
    /\ rt[r].retry_cause = "ValidationFailure" /\ rt[r].pc = "done"
    /\ rt[r].result = "Ok" /\ rt[r].succeeded = 2 /\ rt[r].profile[1] # NoModel

\* ------------------------------------------------------------------ C17
\* SystemAudit entries the ledger holds for an agent
Audits(a) == CopiesIn(LedgerEntry(a, NoLease, "SystemAudit", 0), ledger)

\* C17: every agent the sentinel has ghosted, once its dissolution is over,
\* has had exactly one SystemAlert broadcast and has exactly one SystemAudit
\* entry in the ledger: never none and never more than one.  Stated for the
\* agents that have a budget to freeze.
C17_OneAlertOneAudit ==
  \A a \in aura.ghosted \cap DOMAIN budgets :
    \/ aura.pc \in {"freeze", "broadcast"} /\ aura.agent = a
    \/ alerts[a] = 1 /\ Audits(a) = 1
\* ------------------------------------------------------------------ C18
\* C18: a message posted to a team is delivered to every live subscriber of
\* the team's channel, or, for a subscriber that has lagged beyond the channel
\* capacity, dropped for that subscriber with a warning logged.
C18_DropIsLogged ==
  \A a \in Agents : rx[a].missed > 0 => warnings > 0
\* ------------------------------------------------------------------ C19
\* C19: a pop returns a message whose priority is the greatest of the
\* priorities held, and among the held messages of that priority the one
\* pushed earliest.
C19_PopOrder ==
  [][Len(mailbox') < Len(mailbox)
       => \A i \in 1..Len(mailbox) :
            /\ mailbox[i].priority <= popped'.priority
            /\ mailbox[i].priority = popped'.priority => popped'.message <= mailbox[i].message]_vars
\* ------------------------------------------------------------------ C20
\* C20: resolve_thread is deterministic: two resolutions of a thread that
\* found the same messages stored for it return the same ConsensusState
\* (values and last_updated).
C20_Deterministic ==
  (Len(resolved) = 2 /\ resolved[1].stored = resolved[2].stored
     /\ resolved[1].state.thread_id = resolved[2].state.thread_id)
    => resolved[1].state = resolved[2].state
\* ------------------------------------------------------------------ C21
\* C21: when no insert is in progress, total_size is at most the capacity
\* MAX_MEMORY_BYTES, whatever pinned and non-pinned entries were inserted.
C21_WithinCapacity ==
  (\A t \in MemThreads : mem[t].pc = "idle") => total_size <= MAX_MEMORY_BYTES
\* ------------------------------------------------------------------ C22
\* C22 as stated: a key that was inserted with is_pinned = true and has not
\* been removed is present, whatever inserts, gets, clear() calls and
\* evictions followed.
C22_PinnedPresent ==
  \A key \in pins.ever : key \in DOMAIN cache

\* C22, amended: a key whose latest insert had is_pinned = true and that has
\* not been removed is present and pinned, whatever inserts, gets, clear()
\* calls and evictions followed.
C22_KeptPinnedPresent ==
  \A key \in pins.kept : key \in DOMAIN cache /\ cache[key].is_pinned

C22_Witness ==
  \E key \in pins.kept, other \in pins.dropped :
    /\ key \in DOMAIN cache /\ other \notin DOMAIN cache
    /\ cache[key].access_count > 1
    /\ \A t \in MemThreads : mem[t].pc = "idle"
\* ------------------------------------------------------------------ C23
\* the edges that name node id at either end, in either form
Incident(id, rows) == {e \in rows : e.from_id \in IdForms(id) \/ e.to_id \in IdForms(id)}

\* C23: the step of delete_node(n) leaves node n absent and no edge with
\* from_id or to_id equal to n in either form, and leaves every other node and
\* edge as it was; and any step that takes a node out takes its incident edges
\* out with it.
C23_CascadeDelete ==
  [][/\ (kg'.count # kg.count /\ kg'.op = "delete_node")
         => /\ Thing("nodes", kg'.id) \notin nodes'
            /\ Incident(kg'.id, edges') = {}
            /\ nodes' = nodes \ {Thing("nodes", kg'.id)}
            /\ edges' = edges \ Incident(kg'.id, edges)
      /\ \A id \in NodeIds :
           (Thing("nodes", id) \in nodes /\ Thing("nodes", id) \notin nodes')
             => Incident(id, edges') = {}]_vars

C23_Witness ==
  /\ kg.op = "delete_node"
  /\ Thing("nodes", kg.id) \notin nodes /\ nodes # {}
  /\ \E a, b \in kg.removed : a.from_id = Raw(kg.id) /\ b.to_id = Thing("nodes", kg.id)
  /\ edges # {}

\* C24: a commit_usage call that returns a Receipt returns cost = actual_cost
\* of its usage at the model's rate, remaining_budget = hard_limit - spent and
\* a warning exactly when spent > soft_limit, where spent is the value after
\* this call's increment: the spent of the budget row the call wrote back.
C24_Receipt ==
  [][\A t \in Tasks :
       /\ (call[t].op = "commit_usage" /\ call[t].pc = "update" /\ call'[t].pc = "settle")
            => /\ budgets'[call[t].entity_id] = call[t].budget
               /\ call'[t].budget = call[t].budget
       /\ (call[t].op = "commit_usage" /\ call[t].pc # "ret" /\ call'[t].pc = "ret"
             /\ call'[t].result = "Receipt")
            => LET budget == call[t].budget
                   receipt == call'[t].receipt
               IN /\ receipt.cost = ActualCost(call[t].usage, rates[call[t].usage.model])
                  /\ receipt.remaining_budget = budget.hard_limit - budget.spent
                  /\ receipt.warning <=> (budget.spent > budget.soft_limit)]_vars

C24_Witness ==
  \E t, u \in Clients :
    /\ call[t].op = "commit_usage" /\ call[t].pc = "ret" /\ call[t].result = "Receipt"
    /\ call[u].op = "commit_usage" /\ call[u].pc = "ret" /\ call[u].result = "Receipt"
    /\ call[t].receipt.warning /\ call[t].receipt.cost = 2 /\ call[t].receipt.remaining_budget = 0
    /\ ~ call[u].receipt.warning /\ call[u].budget.spent = call[u].budget.soft_limit

\* C25: the step in which commit_usage writes the budget row leaves spent at
\* the spent stored just before it plus exactly the call's actual_cost, so
\* that spent after any sequence of commits is the exact sum of their costs.
C25_SpentPlusCost ==
  [][\A t \in Tasks :
       (call[t].op = "commit_usage" /\ call[t].pc = "update" /\ call'[t].pc = "settle")
         => budgets'[call[t].entity_id].spent
              = budgets[call[t].entity_id].spent + call[t].actual_cost]_vars

\* C26: whenever a tier is abandoned because its provider call failed (the
\* retries on a transient error are exhausted, or the error is not
\* transient), the router calls report_failure for the tier's model and
\* records that error as the last error, which complete() returns when no
\* tier is left.
C26_FailureReported ==
  [][\A r \in Requests :
       (rt[r].pc = "provider" /\ rt'[r].pc \in {"is_open", "exhausted"})
         => /\ states' = report_failure(Model(r), clock)
            /\ rt'[r].last_error = rt'[r].outcome]_vars

\* C27: once freeze_budget(E) has completed, E's budget status stays Frozen
\* whatever commit_usage and request_lease calls on E follow or interleave.
C27_StaysFrozen ==
  \A e \in frozen_done : budgets[e].status = "Frozen"

\* reset_timeout has elapsed for every Open circuit
ResetElapsed ==
  \A m \in DOMAIN states : states[m].state = "Open" => clock >= states[m].open_until

\* C28: backpressure is not permanent: when a complete() call has returned
\* Backpressure and reset_timeout has elapsed for every Open circuit, the
\* caller's repeated complete() calls eventually pass the gate, unless the
\* caller abandons a call.
C28_BackpressureEnds ==
  (\E r \in Requests : rt[r].pc = "done" /\ rt[r].result = "Backpressure" /\ ResetElapsed)
    ~> (\E r \in Requests : rt[r].pc = "profile" \/ rt[r].result = "Cancelled")

\* C29: a finished complete() call that the caller did not abandon leaves no
\* canary in flight: every canary its is_open calls admitted was resolved by
\* a report_success or report_failure before it returned.
C29_CanaryResolved ==
  \A r \in Requests :
    (rt[r].pc = "done" /\ rt[r].result # "Cancelled")
      => \A m \in DOMAIN states : ~ states[m].canary_in_flight

\* a report_failure call for m arrived while m's circuit was Closed (or not yet
\* in the map): the only step that changes a Closed entry and leaves failures >= 1
ClosedFailure(m) ==
  /\ m \notin DOMAIN states \/ states[m].state = "Closed"
  /\ m \in DOMAIN states'
  /\ m \notin DOMAIN states \/ states'[m] # states[m]
  /\ states'[m].failures >= 1

\* the failures of m that lie within window_duration of `now`
InWindow(instants, now) == {i \in DOMAIN instants : now - instants[i] <= window_duration}

\* every failure of the run is within window_duration of the one before it
Chained(instants) ==
  \A i \in DOMAIN instants :
    i > 1 => instants[i] - instants[i - 1] <= window_duration

\* failures is incremented when the previous failure was within
\* window_duration and reset to 1 otherwise, and the circuit opens, with
\* open_until = now + reset_timeout, exactly when failures reaches
\* failure_threshold
CountedInClosed(m) ==
  LET fresh == m \notin DOMAIN states
      counted == IF fresh THEN 1
                 ELSE IF clock - states[m].last_failure <= window_duration
                      THEN states[m].failures + 1 ELSE 1
  IN /\ states'[m].failures = counted
     /\ states'[m].last_failure = clock
     /\ states'[m].state = IF counted >= failure_threshold THEN "Open" ELSE "Closed"
     /\ states'[m].state = "Open" => states'[m].open_until = clock + reset_timeout
     /\ (states'[m].state = "Closed" /\ ~ fresh)
          => states'[m].open_until = states[m].open_until

C31_DepletedAtHardLimit ==
  [][\A t \in Tasks :
       (/\ call[t].op = "commit_usage" /\ call[t].pc = "update" /\ call'[t].pc = "settle"
        /\ budgets[call[t].entity_id].status = "Active"
        /\ budgets'[call[t].entity_id].spent >= budgets'[call[t].entity_id].hard_limit)
         => budgets'[call[t].entity_id].status = "Depleted"]_vars

\* the cost of the provider call that succeeded in r's complete() call, 0 if none
SuccessfulCost(r) ==
  IF rt[r].succeeded = 0 THEN 0
  ELSE LET model == rt[r].profile[rt[r].succeeded]
       IN ActualCost(Usage(PromptTokens, CompletionTokens, model), rates[model])

\* C32: once a complete() call has returned and the cleanup commits of its
\* lease guards have run, the agent's spent has grown by exactly the actual
\* cost of the one successful provider call (0 if no tier succeeded), and
\* the Settlement entries of its leases add up to that cost. Stated for the
\* deployments whose rate table holds the routed models.
C32_SpentIsSuccessfulCost ==
  \A r \in Requests :
    (/\ rt[r].pc = "done" /\ rt[r].result # "Cancelled"
     /\ spawned = {} /\ \A t \in Tasks : call[t].pc = "idle"
     /\ Models \subseteq DOMAIN rates)
      => /\ budgets[AgentId].spent = spent0[AgentId] + SuccessfulCost(r)
         /\ SumAmounts(Settlements(AgentId)) = SuccessfulCost(r)

\* C33: the mailbox never holds more than capacity messages, a push is
\* refused exactly at capacity, and a message of priority 255 is refused
\* only when every message held has priority 255.
C33_CriticalNotDiscarded ==
  [][/\ Len(mailbox') <= MailboxCapacity
     /\ (discarded' # discarded) <=> (pushes' # pushes /\ Len(mailbox) >= MailboxCapacity)
     /\ (discarded' # discarded /\ discarded'.priority = 255)
          => \A i \in 1..Len(mailbox) : mailbox[i].priority = 255]_vars

\* ------------------------------------------------- team channels, fan-out
\* enum Team { Red, Blue, Green } through format!("{:?}", team).to_lowercase()
TeamKeys == {"red", "blue", "green"}
\* VoxMessage.target_team, lowercased by the watcher
TargetTeams == TeamKeys \cup {"all"}
MaxFanout == 3

FanFrame ==
  UNCHANGED <<dbVars, call, ops, receipts, frozen_done, spent0, utc, outsideLedger,
              rx, warnings, auraVars, mailboxVars, resolverVars, memoryVars, graphVars,
              countVars, scanVars, clientVars, foldVars,
              searchVars, queryVars>>

\* tx.send(msg) on the channels of `keys`: every live receiver gets the message
send(keys, msg) ==
  /\ senders' = [k \in DOMAIN senders |-> IF k \in keys THEN senders[k] + 1 ELSE senders[k]]
  /\ inbox' = [k \in DOMAIN inbox |-> IF k \in keys THEN Append(inbox[k], msg) ELSE inbox[k]]

\* Blackboard::subscribe(team) by the Cortex of a team: subscribe_raw creates
\* the channel under the team's key when it is absent
SubscribeTeam(team) ==
  /\ team \notin DOMAIN inbox
  /\ senders' = IF team \in DOMAIN senders THEN senders ELSE Put(senders, team, 0)
  /\ inbox' = Put(inbox, team, <<>>)
  /\ UNCHANGED fanout
  /\ FanFrame

\* MOMWatcher::run, one Create/Update notification: the message goes to the
\* channel stored under its lowercased target_team, when there is one
run(target_team) ==
  /\ fanout.id < MaxFanout
  /\ fanout' = [id |-> fanout.id + 1, target_team |-> target_team, via |-> "run"]
  /\ send(IF target_team \in DOMAIN senders THEN {target_team} ELSE {}, fanout')
  /\ FanFrame

\* MOMWatcher::broadcast_system_message
broadcast_system_message(target_team) ==
  /\ fanout.id < MaxFanout
  /\ fanout' = [id |-> fanout.id + 1, target_team |-> target_team,
                via |-> "broadcast_system_message"]
  /\ send(IF target_team = "all" THEN DOMAIN senders
          ELSE IF target_team \in DOMAIN senders THEN {target_team} ELSE {}, fanout')
  /\ FanFrame

NextFanout ==
  \/ \E team \in TeamKeys : SubscribeTeam(team)
  \/ \E target_team \in TargetTeams : run(target_team)
  \/ \E target_team \in TargetTeams : broadcast_system_message(target_team)

SpecFanout == InitMom /\ [][NextFanout]_vars

\* ------------------------------------------- AURA sentinel, several rows
\* the rows of aura_pulses in the order SELECT returns them (by record id)
PulseIds == <<"a1", "a2">>
MaxScanUtc == 12
MaxScans == 2
MaxPulsed == 2

ScanFrame ==
  UNCHANGED <<dbVars, call, ops, receipts, frozen_done, spent0, outsideLedger,
              aura, alerts, momVars, mailboxVars, resolverVars, memoryVars, graphVars,
              countVars, fanVars, clientVars, foldVars,
              searchVars, queryVars>>

\* the ids of `rows` in SELECT order
RECURSIVE Ordered(_, _)
Ordered(rows, i) ==
  IF i > Len(PulseIds) THEN <<>>
  ELSE IF PulseIds[i] \in DOMAIN rows THEN <<PulseIds[i]>> \o Ordered(rows, i + 1)
  ELSE Ordered(rows, i + 1)

\* the branch the loop body of monitor_pulse_health takes for one row
Branch(age_secs, status) ==
  IF age_secs > ghost_threshold
  THEN IF status # "ghost" THEN "dissolve_ghost" ELSE "none"
  ELSE IF age_secs > laggard_threshold
       THEN IF status # "laggard" THEN "mark_laggard" ELSE "none"
       ELSE "none"

\* Cortex::run, pulse_tick branch, of the agent `a`
ScanPulse(a) ==
  /\ scan.pulsed < MaxPulsed
  /\ send_pulse(a, "working")
  /\ scan' = [scan EXCEPT !.pulsed = @ + 1]
  /\ UNCHANGED utc
  /\ ScanFrame

\* monitor_pulse_health: SELECT the rows of aura_pulses
ScanQuery ==
  /\ scan.pc = "sleep" /\ utc >= scan.wake /\ scan.scans < MaxScans
  /\ scan' = [scan EXCEPT !.pc = "scan", !.rows = pulses, !.next = 1, !.invoked = <<>>,
                           !.failed = FALSE, !.scans = @ + 1]
  /\ UNCHANGED <<pulses, utc>>
  /\ ScanFrame

\* monitor_pulse_health: the loop body for the next row. `ok` is whether the
\* UPDATE query of mark_laggard / dissolve_ghost returns Ok; on Err the `?`
\* returns from monitor_pulse_health, and run logs the error and sleeps.
ScanRow(ok) ==
  /\ scan.pc = "scan" /\ scan.next <= Len(Ordered(scan.rows, 1))
  /\ LET a == Ordered(scan.rows, 1)[scan.next]
         row == scan.rows[a]
         branch == Branch(utc - row.last_pulse, row.status)
         status == IF branch = "dissolve_ghost" THEN "ghost" ELSE "laggard"
     IN IF branch = "none"
        THEN /\ ok
             /\ scan' = [scan EXCEPT !.next = @ + 1, !.invoked = Put(@, a, branch)]
             /\ UNCHANGED pulses
        ELSE IF ok
        THEN /\ scan' = [scan EXCEPT !.next = @ + 1, !.invoked = Put(@, a, branch)]
             /\ pulses' = [pulses EXCEPT ![a].status = status]
        ELSE /\ scan' = [scan EXCEPT !.pc = "sleep", !.wake = utc + check_interval,
                                      !.invoked = Put(@, a, branch), !.failed = TRUE]
             /\ UNCHANGED pulses
  /\ UNCHANGED utc
  /\ ScanFrame

\* run: monitor_pulse_health has returned Ok, sleep(check_interval)
ScanSleep ==
  /\ scan.pc = "scan" /\ scan.next > Len(Ordered(scan.rows, 1))
  /\ scan' = [scan EXCEPT !.pc = "sleep", !.wake = utc + check_interval]
  /\ UNCHANGED <<pulses, utc>>
  /\ ScanFrame

\* time passes
ScanTick ==
  /\ utc < MaxScanUtc
  /\ utc' = utc + 1
  /\ UNCHANGED <<pulses, scan>>
  /\ ScanFrame

NextScan ==
  \/ \E a \in {PulseIds[i] : i \in 1..Len(PulseIds)} : ScanPulse(a)
  \/ ScanQuery
  \/ \E ok \in BOOLEAN : ScanRow(ok)
  \/ ScanSleep
  \/ ScanTick

SpecScan == InitMom /\ [][NextScan]_vars

\* ------------------------------------------------------ provider selection
\* provider prefixes and model ids, as sequences of characters
Prefixes == {<<"g">>, <<"g", "p">>, <<"g", "p", "t">>, <<"c">>}
ModelIds == {<<"g", "p", "t", "4">>, <<"g", "p", "x">>, <<"c", "l">>, <<"m">>}
LlmClients == {"c1", "c2"}
DefaultClient == "default"

ClientFrame ==
  UNCHANGED <<dbVars, call, ops, receipts, frozen_done, spent0, utc, outsideLedger,
              auraVars, momVars, mailboxVars, resolverVars, memoryVars, graphVars,
              countVars, fanVars, scanVars, foldVars,
              searchVars, queryVars>>

\* str::starts_with
starts_with(model, prefix) ==
  Len(prefix) <= Len(model) /\ SubSeq(model, 1, Len(prefix)) = prefix

\* Router::register_client
register_client(prefix, client) ==
  /\ clients' = Put(clients, prefix, client)
  /\ UNCHANGED selected
  /\ ClientFrame

\* Router::get_client: the first prefix, in the iteration order of the
\* HashMap, that the model starts with; that order is unspecified, so any
\* matching prefix may come first
get_client(model) ==
  /\ LET matching == {prefix \in DOMAIN clients : starts_with(model, prefix)}
     IN IF matching = {}
        THEN selected' = [model |-> model, prefix |-> <<>>, client |-> DefaultClient]
        ELSE \E prefix \in matching :
               selected' = [model |-> model, prefix |-> prefix, client |-> clients[prefix]]
  /\ UNCHANGED clients
  /\ ClientFrame

NextClients ==
  \/ \E prefix \in Prefixes, client \in LlmClients : register_client(prefix, client)
  \/ \E model \in ModelIds : get_client(model)

SpecClients == InitMom /\ [][NextClients]_vars

\* ------------------------------------------- resolver, ConsensusUpdate
\* serde_json values: a number, a string, an array (of numbers), an object
Number(n) == [type |-> "number", n |-> n]
String(str) == [type |-> "string", str |-> str]
Array(items) == [type |-> "array", items |-> items]
Object(fields) == [type |-> "object", fields |-> fields]
ParseError == [type |-> "error"]

\* the state strings of the ConsensusUpdate messages posted
StateStrings ==
  {"{\"a\":1}", "{\"a\":2,\"b\":3}", "{\"b\":4}", "{\"state\":5}", "{}", "42", "\"up\"", "[1]",
   "up", "{a:1}"}

\* serde_json::from_str::<Value> on those strings
from_str(state) ==
  CASE state = "{\"a\":1}" -> Object([k \in {"a"} |-> Number(1)])
    [] state = "{\"a\":2,\"b\":3}" -> Object([k \in {"a", "b"} |-> IF k = "a" THEN Number(2) ELSE Number(3)])
    [] state = "{\"b\":4}" -> Object([k \in {"b"} |-> Number(4)])
    [] state = "{\"state\":5}" -> Object([k \in {"state"} |-> Number(5)])
    [] state = "{}" -> Object(<<>>)
    [] state = "42" -> Number(42)
    [] state = "\"up\"" -> String("up")
    [] state = "[1]" -> Array(<<Number(1)>>)
    [] OTHER -> ParseError

FoldFrame ==
  UNCHANGED <<dbVars, call, ops, receipts, frozen_done, spent0, utc, outsideLedger,
              auraVars, momVars, mailboxVars, resolverVars, memoryVars, graphVars,
              countVars, fanVars, scanVars, clientVars,
              searchVars, queryVars>>

\* collapse, the ConsensusUpdate arm of the loop body
consensus_update(map, state) ==
  LET state_value == from_str(state)
  IN IF state_value.type # "error"
     THEN IF state_value.type = "object"
          THEN [k \in DOMAIN map \cup DOMAIN state_value.fields |->
                  IF k \in DOMAIN state_value.fields THEN state_value.fields[k] ELSE map[k]]
          ELSE map
     ELSE Put(map, "state", String(state))

\* collapse: the loop takes the next message of the thread, a ConsensusUpdate
FoldUpdate(state) ==
  /\ held' = consensus_update(held, state)
  /\ folded' = state
  /\ FoldFrame

\* collapse is called again: it starts from an empty map
FoldAgain ==
  /\ folded # ""
  /\ held' = <<>>
  /\ folded' = ""
  /\ FoldFrame

NextFold ==
  \/ \E state \in StateStrings : FoldUpdate(state)
  \/ FoldAgain

SpecFold == InitMom /\ [][NextFold]_vars

\* --------------------------------------- knowledge graph, structural search
\* the nodes stored in table nodes, and the edge types in use
SearchNodes == {"n1", "n2", "n3"}
SearchEdgeTypes == {"Calls", "Contains"}
MaxEdges == 3
MaxDepth == 2

SearchFrame ==
  UNCHANGED <<dbVars, call, ops, receipts, frozen_done, spent0, utc, outsideLedger,
              auraVars, momVars, mailboxVars, resolverVars, memoryVars, graphVars,
              countVars, fanVars, scanVars, clientVars, foldVars, queryVars>>

TypedEdge(from_id, to_id, edge_type) ==
  [from_id |-> from_id, to_id |-> to_id, edge_type |-> edge_type]

SearchResult(node, path) == [node |-> node, path |-> path]

\* insert_edge of an edge between two stored nodes
InsertTypedEdge(from_id, to_id, edge_type) ==
  /\ Cardinality(typed_edges) < MaxEdges
  /\ from_id # to_id
  /\ typed_edges' = typed_edges \cup {TypedEdge(from_id, to_id, edge_type)}
  /\ UNCHANGED searched
  /\ SearchFrame

\* structural_search: the nodes whose id is the to_id of an edge with
\* from_id = start_node_id and edge_type among edge_types; _max_depth is not
\* read. Every result carries the path [start_node_id].
structural_search(start_node_id, edge_types, max_depth) ==
  LET to_ids == {edge.to_id : edge \in {e \in typed_edges : /\ e.from_id = start_node_id
                                                            /\ e.edge_type \in edge_types}}
  IN {SearchResult(node, <<start_node_id>>) : node \in SearchNodes \cap to_ids}

\* KnowledgeGraphMemory::search with SearchQuery::Structural
Search(start_node_id, edge_types, max_depth) ==
  /\ searched' = [start_node_id |-> start_node_id, edge_types |-> edge_types,
               max_depth |-> max_depth,
               results |-> structural_search(start_node_id, edge_types, max_depth)]
  /\ UNCHANGED typed_edges
  /\ SearchFrame

NextSearch ==
  \/ \E from_id \in SearchNodes, to_id \in SearchNodes, edge_type \in SearchEdgeTypes :
        InsertTypedEdge(from_id, to_id, edge_type)
  \/ \E start_node_id \in SearchNodes, edge_types \in SUBSET SearchEdgeTypes \ {{}},
        max_depth \in 1..MaxDepth : Search(start_node_id, edge_types, max_depth)

SpecSearch == InitMom /\ [][NextSearch]_vars

\* ------------------------------------------------- unified memory query
\* contents that match the query text, timestamps and query instants in days
MatchingContents == {"m1", "m2"}
Timestamps == {0, 1}
QueryInstants == {1, 2}
MaxResults == 2
MaxStored == 3

QueryFrame ==
  UNCHANGED <<dbVars, call, ops, receipts, frozen_done, spent0, utc, outsideLedger,
              auraVars, momVars, mailboxVars, resolverVars, memoryVars, graphVars,
              countVars, fanVars, scanVars, clientVars, foldVars, searchVars>>

StoredEntry(content, timestamp) == [content |-> content, timestamp |-> timestamp]

MemoryResult(content, tier, relevance_score, timestamp) ==
  [content |-> content, tier |-> tier, relevance_score |-> relevance_score,
   timestamp |-> timestamp]

\* relevance scores in ten-thousandths: 1.0, 0.8, 1.0 * 0.7 and 0.5
TierScore(tier) ==
  CASE tier = "Working" -> 10000
    [] tier = "Session" -> 8000
    [] tier = "Project" -> 7000
    [] tier = "Archive" -> 5000

\* (-age_seconds / 86400.0).exp() in ten-thousandths, for ages of whole days
Decay(age_days) ==
  CASE age_days = 0 -> 10000
    [] age_days = 1 -> 3679
    [] OTHER -> 1353

\* the key a tier's query orders its rows by, ascending: the FTS rank and the
\* cosine distance are functions of the content, the archive orders by
\* timestamp DESC
RowKey(tier, entry) ==
  IF tier = "Archive" THEN 0 - entry.timestamp
  ELSE IF entry.content = "m1" THEN 1 ELSE 2

\* the sequences in which a tier's query can return its rows, cut at `limit`;
\* rows of equal key come in an order the statement does not determine
TierRows(tier, limit) ==
  LET rows == stored[tier]
      n == Cardinality(rows)
      orders == {o \in [1..n -> rows] :
                   /\ \A i, j \in 1..n : i # j => o[i] # o[j]
                   /\ \A i, j \in 1..n : i < j => RowKey(tier, o[i]) <= RowKey(tier, o[j])}
  IN {SubSeq(o, 1, IF n < limit THEN n ELSE limit) : o \in orders}

\* the results pushed for a tier's rows, with the time decay applied
Scored(tier, rows, now) ==
  [i \in 1..Len(rows) |->
     LET age == IF now - rows[i].timestamp > 0 THEN now - rows[i].timestamp ELSE 0
     IN MemoryResult(rows[i].content, tier, (TierScore(tier) * Decay(age)) \div 10000,
                     rows[i].timestamp)]

\* slice::sort_by with b.relevance_score.partial_cmp(&a.relevance_score): a
\* stable sort, results of equal score keep their order
RECURSIVE sort_by(_)
sort_by(results) ==
  IF results = <<>> THEN <<>>
  ELSE LET sorted == sort_by(SubSeq(results, 1, Len(results) - 1))
           last == results[Len(results)]
           before == {i \in 1..Len(sorted) : sorted[i].relevance_score >= last.relevance_score}
           k == Cardinality(before)
       IN SubSeq(sorted, 1, k) \o <<last>> \o SubSeq(sorted, k + 1, Len(sorted))

truncate(results, len) == IF Len(results) > len THEN SubSeq(results, 1, len) ELSE results

\* store_working and the stores of the other tiers, of an entry that matches
StoreEntry(tier, content, timestamp) ==
  /\ Cardinality(UNION {stored[MemoryTiers[i]] : i \in 1..4}) < MaxStored
  /\ tier = "Working" => stored[tier] = {}
  /\ stored' = [stored EXCEPT ![tier] = @ \cup {StoredEntry(content, timestamp)}]
  /\ answers' = <<>>
  /\ QueryFrame

\* MemorySubstrate::query at the instant `now`; the working entry found gets
\* the timestamp of the query
Query(max_results, now) ==
  /\ \E session \in TierRows("Session", max_results),
        project \in TierRows("Project", max_results),
        archive \in TierRows("Archive", max_results) :
       LET working == IF stored["Working"] = {} THEN <<>>
                      ELSE <<StoredEntry((CHOOSE e \in stored["Working"] : TRUE).content, now)>>
           all_results == Scored("Working", working, now) \o Scored("Session", session, now)
                            \o Scored("Project", project, now) \o Scored("Archive", archive, now)
           answer == [stored |-> stored, max_results |-> max_results, now |-> now,
                      results |-> truncate(sort_by(all_results), max_results * 4)]
           same == /\ answers # <<>>
                   /\ answers[1].stored = stored
                   /\ answers[1].max_results = max_results
                   /\ answers[1].now = now
       IN answers' = <<answer>> \o (IF same THEN <<answers[1]>> ELSE <<>>)
  /\ UNCHANGED stored
  /\ QueryFrame

NextQuery ==
  \/ \E i \in 1..4, content \in MatchingContents, timestamp \in Timestamps :
       StoreEntry(MemoryTiers[i], content, timestamp)
  \/ \E max_results \in 1..MaxResults, now \in QueryInstants : Query(max_results, now)

SpecQuery == InitMom /\ [][NextQuery]_vars

\* the step hands a message to the watcher and the subscriber of `team` receives it
Received(team) ==
  /\ fanout'.id = fanout.id + 1
  /\ inbox'[team] = Append(inbox[team], fanout')

\* C34: a message whose target_team is "all" reaches the subscribers of every
\* team, by the watcher's reactive loop and by broadcast_system_message alike.
C34_AllReachesEveryTeam ==
  [][(fanout'.id # fanout.id /\ fanout'.target_team = "all")
       => \A team \in DOMAIN inbox : Received(team)]_vars

\* the half of C34 that the code keeps: broadcast_system_message fans out
C34_SystemMessageFansOut ==
  [][(/\ fanout'.id # fanout.id
      /\ fanout'.via = "broadcast_system_message"
      /\ fanout'.target_team = "all")
       => \A team \in DOMAIN inbox : Received(team)]_vars

\* the step handles the row of agent `a`
Handled(a) == a \in DOMAIN scan'.invoked /\ a \notin DOMAIN scan.invoked

\* the step ends a scan of the sentinel
ScanEnds == scan.pc = "scan" /\ scan'.pc = "sleep"

\* the row of `a` gets what its age and status call for: dissolve_ghost above
\* 300 s, status laggard between 60 s and 300 s, nothing else
Classified(a) ==
  LET row == scan.rows[a]
      age == utc - row.last_pulse
  IN /\ (age > 10 /\ row.status # "ghost")
          => scan'.invoked[a] = "dissolve_ghost" /\ pulses'[a].status = "ghost"
     /\ (age > 2 /\ age <= 10 /\ row.status # "laggard") => pulses'[a].status = "laggard"
     /\ ~ (\/ age > 10 /\ row.status # "ghost"
           \/ age > 2 /\ age <= 10 /\ row.status # "laggard") => UNCHANGED pulses

\* C35: in each sentinel scan every row is classified by its age (above 300 s
\* and not ghost: dissolve_ghost; between 60 s and 300 s and not laggard:
\* status laggard; otherwise unchanged), and every row of the scan gets its
\* action whatever happened while the other rows were handled.
C35_EveryRowClassified ==
  [][/\ \A a \in DOMAIN scan.rows : Handled(a) => Classified(a)
     /\ ScanEnds => DOMAIN scan'.invoked = DOMAIN scan'.rows]_vars

\* what the code keeps of C35: a scan in which no query fails handles every
\* row, each by its age and status
C35_ClassifiedUnlessError ==
  [][/\ \A a \in DOMAIN scan.rows : (Handled(a) /\ ~ scan'.failed) => Classified(a)
     /\ (ScanEnds /\ ~ scan'.failed) => DOMAIN scan'.invoked = DOMAIN scan'.rows]_vars

\* C36: whenever no WorkingMemory operation is in progress, total_size is the
\* sum of estimated_size over the entries in the cache, for every interleaving
\* of insert, remove, clear and the eviction that insert triggers.
C36_TotalSizeIsSum ==
  (\A t \in MemThreads : mem[t].pc = "idle") => total_size = SumSizes(cache, DOMAIN cache)

\* what the code keeps of C36: the two agree until an eviction has begun with
\* a copy of total_size that another thread has since made stale
C36_SumUnlessStaleEvict ==
  [][(/\ total_size = SumSizes(cache, DOMAIN cache)
      /\ \A t \in MemThreads : mem[t].pc = "evict" => mem[t].size = total_size)
       => total_size' = SumSizes(cache', DOMAIN cache')]_vars

\* the registered prefixes that `model` starts with
Matching(model) ==
  {prefix \in DOMAIN clients :
     /\ Len(prefix) <= Len(model)
     /\ \A i \in 1..Len(prefix) : prefix[i] = model[i]}

\* C37: get_client returns the client registered under the longest registered
\* prefix the model id starts with, and the default client only when no
\* registered prefix matches.
C37_LongestPrefix ==
  [][selected' # selected =>
       LET matching == Matching(selected'.model)
       IN IF matching = {}
          THEN selected'.client = DefaultClient
          ELSE \E prefix \in matching :
                 /\ \A other \in matching : Len(other) <= Len(prefix)
                 /\ selected'.client = clients[prefix]]_vars

\* what the code keeps of C37: the client of some matching prefix, the
\* default client exactly when there is none
C37_SomeMatchingPrefix ==
  [][selected' # selected =>
       LET matching == Matching(selected'.model)
       IN IF matching = {}
          THEN selected'.client = DefaultClient
          ELSE \E prefix \in matching : selected'.client = clients[prefix]]_vars

\* the step folds a ConsensusUpdate
Folds == folded' # ""

\* the state string folded in the step parses as a JSON object
IsObject == from_str(folded').type = "object"

\* the keys of the object are merged into values, overwriting
Merged ==
  LET fields == from_str(folded').fields
  IN /\ DOMAIN held' = DOMAIN held \cup DOMAIN fields
     /\ \A k \in DOMAIN fields : held'[k] = fields[k]
     /\ \A k \in DOMAIN held \ DOMAIN fields : held'[k] = held[k]

\* values["state"] is set to the raw string, the other keys are kept
RawStored ==
  /\ DOMAIN held' = DOMAIN held \cup {"state"}
  /\ held'["state"] = String(folded')
  /\ \A k \in DOMAIN held \ {"state"} : held'[k] = held[k]

\* C38: folding a ConsensusUpdate merges the keys of its state into values
\* when the state parses as a JSON object, and sets values["state"] to the raw
\* string in every other case (not valid JSON, or valid JSON but no object).
C38_ObjectMergedElseRaw ==
  [][Folds => IF IsObject THEN Merged ELSE RawStored]_vars

\* what the code keeps of C38: objects are merged, strings that are not JSON
\* are stored raw
C38_MergedOrRawUnlessOtherJson ==
  [][Folds => /\ IsObject => Merged
              /\ from_str(folded').type = "error" => RawStored
              /\ from_str(folded').type \notin {"object", "error"} => UNCHANGED held]_vars

\* the nodes reached from `start` by 1 to `depth` outbound edges of the types
RECURSIVE Reachable(_, _, _)
Reachable(start, types, depth) ==
  IF depth = 0 THEN {}
  ELSE LET next == {e.to_id : e \in {e \in typed_edges : e.from_id = start /\ e.edge_type \in types}}
       IN next \cup UNION {Reachable(n, types, depth - 1) : n \in next}

\* the step is a structural search
SearchMade == searched' # searched

\* C39: structural search returns exactly the nodes reachable from
\* start_node_id by 1 to max_depth outbound edges whose type is in edge_types,
\* each with a path that begins at start_node_id.
C39_ReachableWithinDepth ==
  [][SearchMade =>
       /\ {r.node : r \in searched'.results}
            = Reachable(searched'.start_node_id, searched'.edge_types, searched'.max_depth)
       /\ \A r \in searched'.results : r.path # <<>> /\ r.path[1] = searched'.start_node_id]_vars

\* what the code keeps of C39: the nodes one such edge away, whatever max_depth is
C39_DirectNeighbours ==
  [][SearchMade =>
       /\ {r.node : r \in searched'.results}
            = Reachable(searched'.start_node_id, searched'.edge_types, 1)
       /\ \A r \in searched'.results : r.path # <<>> /\ r.path[1] = searched'.start_node_id]_vars

\* at most 4 * max_results results, in non-increasing order of adjusted
\* relevance, each tagged with the tier that stores its content
WellFormed(answer) ==
  /\ Len(answer.results) <= 4 * answer.max_results
  /\ \A i, j \in 1..Len(answer.results) :
       i < j => answer.results[i].relevance_score >= answer.results[j].relevance_score
  /\ \A i \in 1..Len(answer.results) :
       \E e \in answer.stored[answer.results[i].tier] : e.content = answer.results[i].content

\* two queries over the same stored contents, with the same arguments at the same instant
SameQuery(a, b) ==
  a.stored = b.stored /\ a.max_results = b.max_results /\ a.now = b.now

\* C40: the unified query returns at most 4 * max_results results in
\* non-increasing order of decay-adjusted relevance, each tagged with its
\* tier, and the same stored contents and query give the same sequence.
C40_OrderedAndDeterministic ==
  /\ \A i \in 1..Len(answers) : WellFormed(answers[i])
  /\ (Len(answers) = 2 /\ SameQuery(answers[1], answers[2]))
       => answers[1].results = answers[2].results

\* what the code keeps of C40: the size, the order and the tier tags
C40_OrderedAndTagged == \A i \in 1..Len(answers) : WellFormed(answers[i])
====
